---------------------------- MODULE Spec2Model ----------------------------
(***************************************************************************)
(* Model of the x_content_agent pipeline orchestrator, its Firestore       *)
(* persistence, the run-pipeline triggers and the draft review endpoints.  *)
(*                                                                         *)
(* Strings that the code inspects character by character (URLs, item ids,  *)
(* draft ids) are sequences of one-character strings; other text is an     *)
(* opaque TLA+ string.  A Firestore document is a function from the field  *)
(* names it holds to their values, so that a merge can add fields and keep *)
(* the ones it does not name.  An Optional value is <<>> (None) or <<v>>.  *)
(***************************************************************************)
EXTENDS Integers, Sequences, FiniteSets, TLC

\* ------------------------------------------------------------------------
\* Bounds of the model
\* ------------------------------------------------------------------------

\* number of run slots: concurrent runs have a slot each, runs one after the
\* other use the first
MaxRuns == 2

\* number of inputs handled in one behaviour: entries of the inter-stage lists
\* (collected items, shortlisted items, drafts, quality results) and review
\* requests
MaxWork == 3

\* limit=200 passed to list_drafts by _persist_results
PendingListLimit == 200

Runs == 1..MaxRuns

\* ------------------------------------------------------------------------
\* Text helpers
\* ------------------------------------------------------------------------

Whitespace == {" "}

RECURSIVE LStrip(_)
LStrip(s) == IF s # <<>> /\ Head(s) \in Whitespace THEN LStrip(Tail(s)) ELSE s

RECURSIVE RStrip(_)
RStrip(s) ==
    IF s # <<>> /\ s[Len(s)] \in Whitespace THEN RStrip(SubSeq(s, 1, Len(s) - 1)) ELSE s

\* str.strip()
Strip(s) == RStrip(LStrip(s))

HexDigits == {"0", "1", "2", "3", "4", "5", "6", "7", "8", "9", "a", "b", "c", "d", "e", "f"}

\* the two hex digits that stand for one character in a digest
CharHex(c) ==
    CASE c = " " -> <<"2", "0">> [] c = "/" -> <<"2", "f">> [] c = "a" -> <<"6", "1">>
      [] c = "b" -> <<"6", "2">> [] OTHER -> <<"7", "8">>

RECURSIVE HexOf(_)
HexOf(s) == IF s = <<>> THEN <<>> ELSE CharHex(Head(s)) \o HexOf(Tail(s))

\* hashlib.sha256(x).hexdigest(): 64 hex digits fixed by the text.  The
\* digest of the model spells the text out in hex and fills up with zeros,
\* which keeps the texts of the model (at most 8 characters) apart.
hexdigest(s) == SubSeq(HexOf(s) \o [i \in 1..64 |-> "0"], 1, 64)

\* hashlib.sha256(x).hexdigest()[:16]
Sha256Hex16(s) == SubSeq(hexdigest(s), 1, 16)

\* str.replace("/", "_")
ReplaceSlash(s) == [i \in 1..Len(s) |-> IF s[i] = "/" THEN "_" ELSE s[i]]

\* f"{variant}" for the integers of the model
IntStr(n) == CASE n = 0 -> "0" [] n = 1 -> "1" [] n = 2 -> "2" [] n = 3 -> "3" [] OTHER -> "9"

\* code points of the characters that occur in document ids
CharCode(c) ==
    CASE c = "/" -> 47 [] c = "0" -> 48 [] c = "1" -> 49 [] c = "2" -> 50
      [] c = "3" -> 51 [] c = "_" -> 95 [] c = "u" -> 117 [] c = "v" -> 118
      [] c = "x" -> 120 [] c = "y" -> 121 [] c = "z" -> 122 [] OTHER -> 63

\* lexicographic order of document ids (the order of an unordered query)
RECURSIVE IdLess(_, _)
IdLess(a, b) ==
    IF b = <<>> THEN FALSE
    ELSE IF a = <<>> THEN TRUE
    ELSE IF Head(a) # Head(b) THEN CharCode(Head(a)) < CharCode(Head(b))
    ELSE IdLess(Tail(a), Tail(b))

\* "; ".join(issues)
RECURSIVE JoinIssues(_)
JoinIssues(issues) ==
    IF issues = <<>> THEN ""
    ELSE IF Len(issues) = 1 THEN issues[1]
    ELSE issues[1] \o "; " \o JoinIssues(Tail(issues))

\* ------------------------------------------------------------------------
\* shared/models.py
\* ------------------------------------------------------------------------

SignalSource == {"github", "hackernews", "reddit", "producthunt", "arxiv", "rss"}

DraftStatus == {"pending", "approved", "rejected"}

\* a validator that returns the URL as given (a faulty variant, to compare)
UrlFieldUntrimmed(url) == url

\* SignalItem.url_must_not_be_empty: raises on a blank URL, else returns the
\* trimmed URL, which becomes the url field
UrlValid(url) == Strip(url) # <<>>
UrlField(url) == Strip(url)

\* SignalItem.title_must_not_be_empty: raises on a blank title
TitleValid(title) == title # ""

\* SignalItem.item_id: the fingerprint of the (validated) url field
item_id_of(url_field) == Sha256Hex16(url_field)

\* an id helper that would fingerprint the URL as given
url_to_id_untrimmed(url) == Sha256Hex16(url)

\* utils.url_to_id: trims, then fingerprints
url_to_id(url) == Sha256Hex16(Strip(url))

\* DraftPost.model_post_init: the identity derived from (item_id, variant)
DraftId(item_id, variant) == ReplaceSlash(item_id) \o <<"_", "v", IntStr(variant)>>

\* DraftPost field constraints: variant in [1,2], quality_score in [0,100]
VariantValid(v) == v \in 1..2
ScoreValid(s) == s >= 0 /\ s <= 100

\* DraftPost.model_validate(doc.to_dict()): does a stored document parse?
ValidDraftDoc(doc) ==
    /\ {"item_id", "variant", "content"} \subseteq DOMAIN doc
    /\ VariantValid(doc.variant)
    /\ ("status" \in DOMAIN doc => doc.status \in DraftStatus)
    /\ ("quality_score" \in DOMAIN doc => ScoreValid(doc.quality_score))

\* ------------------------------------------------------------------------
\* shared/firestore_client.py (documents of the items and drafts collections)
\* ------------------------------------------------------------------------

\* DocumentReference.set(data, merge=True) on the fields of one document
Merge(old, new) ==
    [k \in DOMAIN old \cup DOMAIN new |-> IF k \in DOMAIN new THEN new[k] ELSE old[k]]

\* a collection with document id written
Put(coll, id, doc) == [k \in DOMAIN coll \cup {id} |-> IF k = id THEN doc ELSE coll[k]]

EmptyDoc == [k \in {} |-> 0]

\* doc_ref.set(data, merge=True): creates the document or merges into it
SetMerge(coll, id, data) ==
    Put(coll, id, Merge(IF id \in DOMAIN coll THEN coll[id] ELSE EmptyDoc, data))

\* an existence check that never finds the document (a faulty variant)
item_exists_never(coll, item_id) == FALSE

\* FirestoreClient.item_exists
item_exists(coll, item_id) == item_id \in DOMAIN coll

\* a save that stores nothing (a faulty variant)
save_item_lost(coll, signal) == coll

\* FirestoreClient.save_item: data = item.model_dump(); data["item_id"] = id;
\* set(data, merge=True)
save_item(coll, signal) ==
    LET id == item_id_of(signal.url)
    IN  SetMerge(coll, id, Merge(signal, [item_id |-> id]))

\* a save that replaces the document: set without merge (a faulty variant)
save_draft_replace(coll, draft) == Put(coll, draft.draft_id, draft)

\* FirestoreClient.save_draft: set(draft.model_dump(), merge=True)
save_draft(coll, draft) == SetMerge(coll, draft.draft_id, draft)

\* FirestoreClient.update_draft: updates["reviewed_at"] = now; doc_ref.update
\* (update raises NotFound on a missing document: see UpdateFails)
update_draft(coll, draft_id, updates, t) ==
    Put(coll, draft_id, Merge(coll[draft_id], Merge(updates, [reviewed_at |-> <<t>>])))

\* doc_ref.update on a document that does not exist raises
UpdateFails(coll, draft_id) == draft_id \notin DOMAIN coll

\* FirestoreClient.get_draft: None when absent, else the parsed document
\* (model_validate raises on a stored document that is not a valid DraftPost)
get_draft_found(coll, draft_id) == draft_id \in DOMAIN coll
get_draft_raises(coll, draft_id) ==
    draft_id \in DOMAIN coll /\ ~ValidDraftDoc(coll[draft_id])

\* the ids of a set, in document-id order
RECURSIVE IdOrder(_)
IdOrder(S) ==
    IF S = {} THEN <<>>
    ELSE LET m == CHOOSE x \in S : \A y \in S \ {x} : IdLess(x, y)
         IN  <<m>> \o IdOrder(S \ {m})

\* the first n elements of a sequence
Take(s, n) == SubSeq(s, 1, IF Len(s) < n THEN Len(s) ELSE n)

\* a listing that ignores the status filter (a faulty variant)
list_drafts_unfiltered(coll, status, limit) ==
    LET fetched_ids == Take(IdOrder(DOMAIN coll), limit)
        parsed == SelectSeq(fetched_ids, LAMBDA id : ValidDraftDoc(coll[id]))
    IN  SortSeq(parsed, LAMBDA a, b : coll[a].created_at > coll[b].created_at)

\* FirestoreClient.list_drafts(status, limit): where status == s, limit, parse
\* each document (invalid ones are skipped), then a stable client-side sort by
\* created_at, newest first.  Yields the draft ids.
list_drafts(coll, status, limit) ==
    LET matching == {id \in DOMAIN coll :
                        "status" \in DOMAIN coll[id] /\ coll[id].status = status}
        fetched_ids == Take(IdOrder(matching), limit)
        parsed == SelectSeq(fetched_ids, LAMBDA id : ValidDraftDoc(coll[id]))
    IN  SortSeq(parsed, LAMBDA a, b : coll[a].created_at > coll[b].created_at)

\* dict.get(key, default)
Get(d, k, default) == IF k \in DOMAIN d THEN d[k] ELSE default


\* ------------------------------------------------------------------------
\* Inputs: what the agents leave in the session state, and review requests
\* ------------------------------------------------------------------------

\* entries of state["collected_items"] (dicts; a key may be missing)
ItemInputs ==
    { [url |-> <<"a">>, title |-> "t1", source |-> "rss", description |-> "d1"],
      [url |-> <<" ", "a", " ">>, title |-> "t2", source |-> "github",
       description |-> "d2", metadata |-> [stars |-> 5]],
      [url |-> <<"b">>, title |-> "t1"],
      [url |-> <<" ">>, title |-> "t1", source |-> "blog"],
      [title |-> "t1", source |-> "rss"] }

\* entries of state["generated_drafts"]
DraftInputs ==
    { [item_id |-> <<"x">>, variant |-> 1, content |-> "c1"],
      [item_id |-> <<"x">>, variant |-> 2, content |-> "c2"],
      [item_id |-> <<"y", "/", "z">>, content |-> "c1"],
      [item_id |-> <<"x">>, variant |-> 3, content |-> "c1"],
      [item_id |-> <<"x">>, variant |-> 2, content |-> ""] }

\* entries of state["quality_results"]
QualityInputs ==
    { [draft_id |-> <<"x", "_", "v", "1">>, passed |-> FALSE, score |-> 40,
       issues |-> <<"hype">>],
      [draft_id |-> <<"x", "_", "v", "2">>, passed |-> TRUE, score |-> 90],
      [draft_id |-> <<"0">>, score |-> 150, issues |-> <<"long", "vague">>] }

\* the output_key of each agent of the SequentialAgent, in pipeline order
Stages == <<"collector", "ranker", "drafter", "quality_guard">>

OutputKey(stage) ==
    CASE stage = "collector" -> "collected_items"
      [] stage = "ranker" -> "shortlisted_items"
      [] stage = "drafter" -> "generated_drafts"
      [] stage = "quality_guard" -> "quality_results"

\* a runner that starts the drafter before the ranker (a faulty variant)
AfterStageUnordered(stage) ==
    CASE stage = "collector" -> "drafter"
      [] stage = "drafter" -> "ranker"
      [] stage = "ranker" -> "quality_guard"
      [] stage = "quality_guard" -> "get_session"

\* the agent that follows a stage in sub_agents ("get_session" after the last)
AfterStage(stage) ==
    CASE stage = "collector" -> "ranker"
      [] stage = "ranker" -> "drafter"
      [] stage = "drafter" -> "quality_guard"
      [] stage = "quality_guard" -> "get_session"

\* ------------------------------------------------------------------------
\* State
\* ------------------------------------------------------------------------

VARIABLES
    items,      \* the items collection: document id -> document
    drafts,     \* the drafts collection: document id -> document
    now,        \* the clock read by datetime.now
    pc,         \* where each run is
    sess,       \* the keys each run's session state holds
    entry,      \* the loop variable (item_data, draft_data, qr_data) of each run
    pos,        \* how many entries of the current list each run has processed
    pending,    \* all_draft_ids of each run
    result,     \* the PipelineRunResult of each run
    outcome,    \* of run_pipeline: "none", "returned" or "raised"
    resp,       \* the HTTP status of the last review request: <<>> or <<n>>
    fetched,    \* the lists the agents produce, when they are fixed for all runs
    work,       \* inputs handled so far
    call,       \* the last call of a tool function: its name, argument, result
    net,        \* a fetcher's HTTP traffic: the retry loop and what it returned
    collected,  \* sum of the items_collected increments of all runs
    tweets,     \* the calls of XPoster.post_tweet, in order: the draft and the outcome
    limiter     \* the dashboard's rate limiter: _rate_limit_store, the requests
                \* in the middleware, and the times of the requests passed on

vars == <<items, drafts, now, pc, sess, entry, pos, pending, result, outcome,
          resp, fetched, work, collected, call, net, tweets, limiter>>

store == <<items, drafts, now>>

\* PipelineRunResult(run_id, started_at) as constructed by run()
NewResult ==
    [items_collected |-> 0, items_shortlisted |-> 0, drafts_generated |-> 0,
     drafts_passed_quality |-> 0, errors |-> <<>>, completed_at |-> <<>>]

NoFetch ==
    [fixed |-> FALSE, collected_items |-> <<>>, shortlisted_items |-> <<>>,
     generated_drafts |-> <<>>, quality_results |-> <<>>]

InitRuns ==
    /\ pc = [r \in Runs |-> "idle"]
    /\ sess = [r \in Runs |-> {}]
    /\ entry = [r \in Runs |-> EmptyDoc]
    /\ pos = [r \in Runs |-> 0]
    /\ pending = [r \in Runs |-> <<>>]
    /\ result = [r \in Runs |-> NewResult]
    /\ outcome = [r \in Runs |-> "none"]

\* the clients of the dashboard, by address
Clients == {"10.0.0.1", "10.0.0.2"}

\* most requests that arrive
MaxRequests == 3
Requests == 1..MaxRequests

\* a request that has not arrived
NewRequest == [at |-> "new", client |-> "", allowed |-> FALSE]

\* the dashboard before any request: _rate_limit_store holds no timestamp
NoTraffic ==
    [rate_limit_store |-> [c \in Clients |-> <<>>],
     passed |-> [c \in Clients |-> <<>>],
     http |-> [q \in Requests |-> NewRequest]]

InitStore ==
    /\ items = EmptyDoc
    /\ drafts = EmptyDoc
    /\ now = 1
    /\ resp = <<>>
    /\ work = 0
    /\ collected = 0
    /\ tweets = <<>>
    /\ limiter = NoTraffic

\* no tool function has been called, no fetcher is running
PyNone == [t |-> "none", v |-> <<>>]
NoCall == [fn |-> "none", arg |-> PyNone, done |-> TRUE, ret |-> PyNone]
NewCall == [attempt |-> 0, reqs |-> 0, last_exc |-> "none", ret |-> "pending", exc |-> "none"]
NoNet == [at |-> "idle", fetcher |-> 0, src |-> 0, items |-> <<>>, results |-> <<>>,
          raised_in |-> {}, w |-> NewCall]
InitTools == call = NoCall /\ net = NoNet

Init == InitStore /\ InitRuns /\ InitTools /\ fetched = NoFetch

\* ------------------------------------------------------------------------
\* ContentPipeline._persist_results
\* ------------------------------------------------------------------------

\* the run's error list with one more entry
AppendError(res, e) == [res EXCEPT !.errors = Append(@, e)]

\* SignalItem(url=..., title=..., source=SignalSource(...), ...) raises unless
\* the URL and title are non-blank and the source is one of the enumeration
ItemValid(d) ==
    /\ UrlValid(d.url)
    /\ TitleValid(Get(d, "title", "Untitled"))
    /\ Get(d, "source", "rss") \in SignalSource

\* the SignalItem built from a collected entry at time t
SignalItemOf(d, t) ==
    [url |-> UrlField(d.url),
     title |-> Get(d, "title", "Untitled"),
     source |-> Get(d, "source", "rss"),
     description |-> Get(d, "description", ""),
     collected_at |-> t,
     metadata |-> Get(d, "metadata", EmptyDoc)]

\* one iteration of "for item_data in items" on the items collection coll and
\* the result res; fault names the store call that raises, if any
persist_item(coll, res, d, t, fault) ==
    IF ~("url" \in DOMAIN d /\ d.url # <<>>)
    THEN [coll |-> coll, res |-> res]
    ELSE IF ~ItemValid(d)
    THEN [coll |-> coll, res |-> AppendError(res, "Item persist error")]
    ELSE LET signal == SignalItemOf(d, t)
             id == item_id_of(signal.url)
         IN  IF fault = "exists_raises"
             THEN [coll |-> coll, res |-> AppendError(res, "Item persist error")]
             ELSE IF item_exists(coll, id)
             THEN [coll |-> coll, res |-> res]
             ELSE IF fault = "save_raises"
             THEN [coll |-> coll, res |-> AppendError(res, "Item persist error")]
             ELSE [coll |-> save_item(coll, signal),
                   res |-> [res EXCEPT !.items_collected = @ + 1]]

\* does the draft entry reach the DraftPost constructor, and does it validate?
DraftHasContent(d) == "content" \in DOMAIN d /\ d.content # ""
DraftValid(d) == VariantValid(Get(d, "variant", 1))

\* DraftPost(item_id, variant, content, status=PENDING) built at time t
DraftPostOf(d, t) ==
    LET item_id == Get(d, "item_id", <<"u", "n", "k", "n", "o", "w", "n">>)
        variant == Get(d, "variant", 1)
    IN  [draft_id |-> DraftId(item_id, variant),
         item_id |-> item_id,
         variant |-> variant,
         content |-> d.content,
         status |-> "pending",
         quality_score |-> 0,
         quality_notes |-> "",
         human_lines |-> <<>>,
         created_at |-> t,
         reviewed_at |-> <<>>,
         review_notes |-> ""]

\* one iteration of "for draft_data in drafts"; a constructed DraftPost has
\* read the clock
persist_draft(coll, res, d, t, fault) ==
    IF ~DraftHasContent(d)
    THEN [coll |-> coll, res |-> res, now |-> t]
    ELSE IF ~DraftValid(d)
    THEN [coll |-> coll, res |-> AppendError(res, "Draft persist error"), now |-> t]
    ELSE IF fault = "save_raises"
    THEN [coll |-> coll, res |-> AppendError(res, "Draft persist error"), now |-> t + 1]
    ELSE [coll |-> save_draft(coll, DraftPostOf(d, t)),
          res |-> [res EXCEPT !.drafts_generated = @ + 1],
          now |-> t + 1]

\* the elements of a sequence
Range(s) == {s[i] : i \in 1..Len(s)}

\* the draft a quality result is applied to: <<>> when it resolves to none
\* (idx counts from 0, as enumerate does)
ResolveDraftId(qr, idx, all_draft_ids) ==
    LET draft_id == Get(qr, "draft_id", <<>>)
    IN  IF draft_id \in Range(all_draft_ids) THEN <<draft_id>>
        ELSE IF idx < Len(all_draft_ids) THEN <<all_draft_ids[idx + 1]>>
        ELSE <<>>

\* an updates dict that would write the status for a passing result too (a
\* faulty variant, to compare)
QualityUpdatesWithStatus(qr) ==
    LET issues == Get(qr, "issues", <<>>)
    IN  [quality_score |-> Get(qr, "score", 0),
         quality_notes |-> IF issues # <<>> THEN JoinIssues(issues) ELSE "Passed",
         status |-> IF Get(qr, "passed", FALSE) THEN "pending" ELSE "rejected"]

\* the updates dict built from a quality result
QualityUpdates(qr) ==
    LET issues == Get(qr, "issues", <<>>)
        base == [quality_score |-> Get(qr, "score", 0),
                 quality_notes |-> IF issues # <<>> THEN JoinIssues(issues) ELSE "Passed"]
    IN  IF Get(qr, "passed", FALSE) THEN base
        ELSE Merge(base, [status |-> "rejected"])

\* a loop body that would count a passing result before resolving it (a
\* faulty variant, to compare)
persist_quality_counting_all(coll, res, qr, idx, all_draft_ids, t, fault) ==
    LET resolved == ResolveDraftId(qr, idx, all_draft_ids)
        counted == IF Get(qr, "passed", FALSE)
                   THEN [res EXCEPT !.drafts_passed_quality = @ + 1]
                   ELSE res
    IN  [coll |-> IF resolved = <<>> \/ fault = "update_raises" \/ UpdateFails(coll, resolved[1])
                  THEN coll
                  ELSE update_draft(coll, resolved[1], QualityUpdates(qr), t),
         res |-> counted]

\* one iteration of "for idx, qr_data in enumerate(quality_results)": a failed
\* update_draft is caught by the inner except and only logged
persist_quality(coll, res, qr, idx, all_draft_ids, t, fault) ==
    LET resolved == ResolveDraftId(qr, idx, all_draft_ids)
    IN  IF resolved = <<>>
        THEN [coll |-> coll, res |-> res]
        ELSE [coll |-> IF fault = "update_raises" \/ UpdateFails(coll, resolved[1])
                       THEN coll
                       ELSE update_draft(coll, resolved[1], QualityUpdates(qr), t),
              res |-> IF Get(qr, "passed", FALSE)
                      THEN [res EXCEPT !.drafts_passed_quality = @ + 1]
                      ELSE res]

\* ------------------------------------------------------------------------
\* main.py and ContentPipeline.run
\* ------------------------------------------------------------------------

\* The entries of a decoded list are drawn as the loop reaches them: the
\* list is what an agent left in the session, which no step of the run
\* changes.  A key the session lacks decodes to [].
NextEntries(r, key, inputs) ==
    IF key \notin sess[r] THEN {}
    ELSE IF fetched.fixed
    THEN (IF pos[r] < Len(fetched[key]) THEN {fetched[key][pos[r] + 1]} ELSE {})
    ELSE (IF work < MaxWork THEN inputs ELSE {})

\* the loop over the list under key has reached its end
ListEnds(r, key) ==
    (fetched.fixed /\ key \in sess[r]) => pos[r] = Len(fetched[key])

\* the store calls that may raise: with the payloads fixed the store answers
\* every call
Faults(S) == IF fetched.fixed THEN {"none"} ELSE S

\* one more input handled
Worked(n) == work' = IF fetched.fixed THEN work ELSE work + n

\* the iterator of "for x in list" moves on (enumerate's idx is kept apart)
Advance(r) == pos' = [pos EXCEPT ![r] = IF fetched.fixed THEN @ + 1 ELSE @]

\* __main__: sys.exit(0 if not result.get("errors") else 1); an uncaught
\* exception of run_pipeline ends the interpreter with exit status 1
CliExit(raised, errors) == IF raised THEN 1 ELSE IF errors = <<>> THEN 0 ELSE 1

\* trigger_pipeline: JSONResponse(content=result) has status 200; the except
\* clause answers 500
HttpStatus(raised, errors) == IF raised THEN 500 ELSE 200

\* a trigger (CLI __main__ or POST /run) calls run_pipeline
Start(r) ==
    /\ pc[r] = "idle"
    /\ pc' = [pc EXCEPT ![r] = "construct"]
    /\ UNCHANGED <<store, sess, entry, pos, pending, result, outcome, resp, fetched, call, net, work, collected, tweets, limiter>>

\* run_pipeline ends, by "return result.model_dump()" with the result res
\* (run() has set completed_at) or by an exception; the session and the
\* locals of _persist_results are gone
Finish(r, res, raised) ==
    /\ result' = [result EXCEPT ![r] =
                     IF raised THEN res ELSE [res EXCEPT !.completed_at = <<now>>]]
    /\ outcome' = [outcome EXCEPT ![r] = IF raised THEN "raised" ELSE "returned"]
    /\ pc' = [pc EXCEPT ![r] = "done"]
    /\ sess' = [sess EXCEPT ![r] = {}]
    /\ entry' = [entry EXCEPT ![r] = EmptyDoc]
    /\ pos' = [pos EXCEPT ![r] = 0]
    /\ pending' = [pending EXCEPT ![r] = <<>>]

\* run(): the except clause of the try block: errors.append(str(e)), after
\* which the run goes on at "result.completed_at = ..." and returns
Caught(r, e) == Finish(r, AppendError(result[r], e), FALSE)

\* the run moves to p; nothing else of the run changes
Goto(r, p) ==
    /\ pc' = [pc EXCEPT ![r] = p]
    /\ UNCHANGED <<sess, entry, pos, pending, result, outcome>>

\* run_pipeline: ContentPipeline(project_id) builds the store client and the
\* agents outside any try block; an exception there leaves run_pipeline
Construct(r) ==
    /\ pc[r] = "construct"
    /\ \E ok \in BOOLEAN :
         IF ok THEN Goto(r, "create_session")
         ELSE Finish(r, result[r], TRUE)
    /\ UNCHANGED <<store, resp, fetched, call, net, work, collected, tweets, limiter>>

\* run(): session_service.create_session
CreateSession(r) ==
    /\ pc[r] = "create_session"
    /\ \E ok \in BOOLEAN :
         IF ok THEN Goto(r, Stages[1])
         ELSE Caught(r, "create_session failed")
    /\ UNCHANGED <<store, resp, fetched, call, net, work, collected, tweets, limiter>>

\* run(): one sub-agent of the SequentialAgent inside "async for event in
\* runner.run_async(...)": it stores its output under its output_key, or its
\* exception leaves the loop
RunStage(r) ==
    /\ pc[r] \in {Stages[i] : i \in 1..Len(Stages)}
    /\ \E ok \in BOOLEAN :
         IF ok
         THEN /\ sess' = [sess EXCEPT ![r] = @ \cup {OutputKey(pc[r])}]
              /\ pc' = [pc EXCEPT ![r] = AfterStage(pc[r])]
              /\ UNCHANGED <<entry, pos, pending, result, outcome>>
         ELSE Caught(r, "agent failed")
    /\ UNCHANGED <<store, resp, fetched, call, net, work, collected, tweets, limiter>>

\* run(): session_service.get_session; final_state stays {} when the session
\* is not found; then _persist_results starts with the collected items
GetSession(r) ==
    /\ pc[r] = "get_session"
    /\ \E got \in {"found", "missing", "raises"} :
         CASE got = "found" -> Goto(r, "items")
           [] got = "missing" ->
                /\ sess' = [sess EXCEPT ![r] = {}]
                /\ pc' = [pc EXCEPT ![r] = "items"]
                /\ UNCHANGED <<entry, pos, pending, result, outcome>>
           [] got = "raises" -> Caught(r, "get_session failed")
    /\ UNCHANGED <<store, resp, fetched, call, net, work, collected, tweets, limiter>>

\* what a step of the persistence loops leaves alone
LoopFrame == UNCHANGED <<pc, sess, pending, outcome, resp, fetched, call, net>>

\* _persist_results, step 1: the next collected item
PersistItem(r) ==
    /\ pc[r] = "items"
    /\ \E d \in NextEntries(r, "collected_items", ItemInputs),
          fault \in Faults({"none", "exists_raises", "save_raises"}) :
         LET out == persist_item(items, result[r], d, now, fault)
         IN  /\ items' = out.coll
             /\ result' = [result EXCEPT ![r] = out.res]
             /\ collected' =
                  collected + (out.res.items_collected - result[r].items_collected)
             /\ entry' = [entry EXCEPT ![r] = d]
    /\ Advance(r)
    /\ Worked(1)
    /\ UNCHANGED <<drafts, now, tweets, limiter>>
    /\ LoopFrame

\* len(shortlisted)
ShortlistLens(r) ==
    IF "shortlisted_items" \notin sess[r] THEN {0}
    ELSE IF fetched.fixed THEN {Len(fetched.shortlisted_items)}
    ELSE IF work < MaxWork THEN {0, 1} ELSE {0}

\* _persist_results, step 2 (count shortlisted) and the start of step 3
BeginDrafts(r) ==
    /\ pc[r] = "items"
    /\ ListEnds(r, "collected_items")
    /\ \E n \in ShortlistLens(r) :
         /\ result' = [result EXCEPT ![r].items_shortlisted = n]
         /\ Worked(n)
    /\ pos' = [pos EXCEPT ![r] = 0]
    /\ entry' = [entry EXCEPT ![r] = EmptyDoc]
    /\ pc' = [pc EXCEPT ![r] = "drafts"]
    /\ UNCHANGED <<store, sess, pending, outcome, resp, fetched, call, net,
                   collected, tweets, limiter>>

\* _persist_results, step 3: the next generated draft
PersistDraft(r) ==
    /\ pc[r] = "drafts"
    /\ \E d \in NextEntries(r, "generated_drafts", DraftInputs),
          fault \in Faults({"none", "save_raises"}) :
         LET out == persist_draft(drafts, result[r], d, now, fault)
         IN  /\ drafts' = out.coll
             /\ result' = [result EXCEPT ![r] = out.res]
             /\ now' = out.now
             /\ entry' = [entry EXCEPT ![r] = d]
    /\ Advance(r)
    /\ Worked(1)
    /\ UNCHANGED <<items, collected, tweets, limiter>>
    /\ LoopFrame

\* _persist_results, step 4: all_draft_ids = ids of list_drafts(PENDING, 200);
\* an exception of the query is not caught here: it reaches run()
ListPending(r) ==
    /\ pc[r] = "drafts"
    /\ ListEnds(r, "generated_drafts")
    /\ \E ok \in BOOLEAN :
         IF ok
         THEN /\ pending' = [pending EXCEPT ![r] =
                                list_drafts(drafts, "pending", PendingListLimit)]
              /\ pc' = [pc EXCEPT ![r] = "quality"]
              /\ pos' = [pos EXCEPT ![r] = 0]
              /\ entry' = [entry EXCEPT ![r] = EmptyDoc]
              /\ UNCHANGED <<sess, result, outcome>>
         ELSE Caught(r, "list_drafts failed")
    /\ UNCHANGED <<store, resp, fetched, call, net, work, collected, tweets, limiter>>

\* _persist_results, step 4: the next quality result (pos is enumerate's idx)
PersistQuality(r) ==
    /\ pc[r] = "quality"
    /\ \E qr \in NextEntries(r, "quality_results", QualityInputs),
          fault \in Faults({"none", "update_raises"}) :
         LET out == persist_quality(drafts, result[r], qr, pos[r], pending[r], now, fault)
         IN  /\ drafts' = out.coll
             /\ result' = [result EXCEPT ![r] = out.res]
             /\ entry' = [entry EXCEPT ![r] = qr]
    /\ pos' = [pos EXCEPT ![r] = @ + 1]
    /\ Worked(1)
    /\ UNCHANGED <<items, now, collected, tweets, limiter>>
    /\ LoopFrame

\* run(): _persist_results has returned; result.completed_at = now; return
Return(r) ==
    /\ pc[r] = "quality"
    /\ ListEnds(r, "quality_results")
    /\ Finish(r, result[r], FALSE)
    /\ UNCHANGED <<store, resp, fetched, call, net, work, collected, tweets, limiter>>

\* ------------------------------------------------------------------------
\* services/approval_ui/app.py: the review requests
\* ------------------------------------------------------------------------

\* the length limit of api_update_draft
MaxChars == 280

\* the tweet id X answers with, and XPoster's tweet_url for it
TweetId == "t9"
TweetUrl(tweet_id) == "https://x.com/i/status/" \o tweet_id

\* the drafts a review request names
ReviewTargets ==
    { DraftId(d.item_id, Get(d, "variant", 1)) : d \in {e \in DraftInputs : DraftValid(e)} }

\* DraftUpdateRequest bodies (human_lines: the lines of the text)
X40 == "xxxxxxxxxx" \o "xxxxxxxxxx" \o "xxxxxxxxxx" \o "xxxxxxxxxx"
LongContent == X40 \o X40 \o X40 \o X40 \o X40 \o X40 \o X40 \o "x"
UpdateInputs ==
    { [content |-> "c3", human_lines |-> <<"h">>],
      [status |-> "pending", review_notes |-> "n"],
      [status |-> "approved"],
      [content |-> LongContent],
      [human_lines |-> <<"h", "", "i", "j">>],
      EmptyDoc }

\* the non-blank lines of a human_lines text
HumanLines(lines) == SelectSeq(lines, LAMBDA l : l # "")

\* the updates dict api_update_draft builds from a request body
PatchUpdates(update, t) ==
    LET content == IF "content" \in DOMAIN update
                   THEN [content |-> update.content] ELSE EmptyDoc
        lines == IF "human_lines" \in DOMAIN update
                 THEN [human_lines |-> update.human_lines] ELSE EmptyDoc
        st == IF "status" \in DOMAIN update
              THEN (IF update.status \in {"approved", "rejected"}
                    THEN [status |-> update.status, reviewed_at |-> <<t>>]
                    ELSE [status |-> update.status])
              ELSE EmptyDoc
        notes == IF "review_notes" \in DOMAIN update
                 THEN [review_notes |-> update.review_notes] ELSE EmptyDoc
    IN  Merge(Merge(Merge(content, lines), st), notes)

\* DraftUpdateRequest: the body is validated before the handler runs
RequestValid(update) ==
    /\ "human_lines" \in DOMAIN update => Len(HumanLines(update.human_lines)) <= 2
    /\ "status" \in DOMAIN update => update.status \in DraftStatus

\* a length check that would let every content through
TooLongNever(content) == FALSE

\* len(update.content) > 280
TooLong(content) == Len(content) > MaxChars

\* api_update_draft(draft_id, update): the collection and the HTTP status;
\* a body that fails validation is answered with 422 by the framework
api_update_draft(coll, draft_id, update, t) ==
    IF ~RequestValid(update) THEN [coll |-> coll, resp |-> 422]
    ELSE IF ~get_draft_found(coll, draft_id) THEN [coll |-> coll, resp |-> 404]
    ELSE IF get_draft_raises(coll, draft_id) THEN [coll |-> coll, resp |-> 500]
    ELSE IF "content" \in DOMAIN update /\ TooLong(update.content)
    THEN [coll |-> coll, resp |-> 400]
    ELSE IF "human_lines" \in DOMAIN update /\ Len(HumanLines(update.human_lines)) > 2
    THEN [coll |-> coll, resp |-> 400]
    ELSE IF PatchUpdates(update, t) = EmptyDoc THEN [coll |-> coll, resp |-> 400]
    ELSE [coll |-> update_draft(coll, draft_id, PatchUpdates(update, t), t),
          resp |-> 200]

\* api_approve_draft(draft_id): post names the poster's state: "off" (no
\* credentials), "ok" or "fails"
\* the calls of XPoster.post_tweet a handler makes for a draft: none when X
\* is not configured, else one, which succeeds or fails
PostTweet(draft_id, post) ==
    IF post = "off" THEN <<>> ELSE <<[draft_id |-> draft_id, success |-> post = "ok"]>>

api_approve_draft(coll, draft_id, post, t) ==
    IF ~get_draft_found(coll, draft_id) THEN [coll |-> coll, resp |-> 404, posts |-> <<>>]
    ELSE IF get_draft_raises(coll, draft_id) THEN [coll |-> coll, resp |-> 500, posts |-> <<>>]
    ELSE IF post = "fails" THEN [coll |-> coll, resp |-> 502, posts |-> PostTweet(draft_id, post)]
    ELSE LET updates == [status |-> "approved", reviewed_at |-> <<t>>]
             tweet == [tweet_id |-> TweetId, tweet_url |-> TweetUrl(TweetId)]
         IN  [coll |-> update_draft(coll, draft_id,
                                    IF post = "ok" THEN Merge(updates, tweet)
                                    ELSE updates, t),
              resp |-> 200,
              posts |-> PostTweet(draft_id, post)]

\* telegram_bot.handle_callback for the button data "action:draft_id": a
\* draft that is not found is answered with a message; get_draft raising
\* leaves the handler; approve posts when X is configured and then writes
\* status approved whatever the post returned
handle_callback(coll, action, draft_id, post, t) ==
    IF ~get_draft_found(coll, draft_id) \/ get_draft_raises(coll, draft_id)
          \/ action \notin {"approve", "reject"}
    THEN [coll |-> coll, posts |-> <<>>]
    ELSE IF action = "reject"
    THEN [coll |-> update_draft(coll, draft_id,
                                [status |-> "rejected", reviewed_at |-> <<t>>], t),
          posts |-> <<>>]
    ELSE [coll |-> update_draft(coll, draft_id,
                     IF post = "ok"
                     THEN [status |-> "approved", reviewed_at |-> <<t>>,
                           tweet_id |-> TweetId, tweet_url |-> TweetUrl(TweetId)]
                     ELSE [status |-> "approved", reviewed_at |-> <<t>>], t),
          posts |-> PostTweet(draft_id, post)]

\* api_reject_draft(draft_id)
api_reject_draft(coll, draft_id, t) ==
    IF ~get_draft_found(coll, draft_id) THEN [coll |-> coll, resp |-> 404]
    ELSE IF get_draft_raises(coll, draft_id) THEN [coll |-> coll, resp |-> 500]
    ELSE [coll |-> update_draft(coll, draft_id,
                                [status |-> "rejected", reviewed_at |-> <<t>>], t),
          resp |-> 200]

\* what a review request leaves alone
ReviewFrame ==
    UNCHANGED <<items, now, pc, sess, entry, pos, pending, result, outcome,
                fetched, call, net, collected, limiter>>

\* a review request is answered; a tweet that was posted is on X
Answer(out) ==
    /\ drafts' = out.coll
    /\ resp' = <<out.resp>>
    /\ tweets' = tweets \o Get(out, "posts", <<>>)
    /\ work < MaxWork
    /\ work' = work + 1
    /\ ReviewFrame

\* PATCH /api/drafts/{draft_id}
Patch ==
    \E id \in ReviewTargets, update \in UpdateInputs :
      Answer(api_update_draft(drafts, id, update, now))

\* POST /api/drafts/{draft_id}/approve
Approve ==
    \E id \in ReviewTargets, post \in {"off", "ok", "fails"} :
      Answer(api_approve_draft(drafts, id, post, now))

\* POST /api/drafts/{draft_id}/reject
Reject ==
    \E id \in ReviewTargets : Answer(api_reject_draft(drafts, id, now))

\* ------------------------------------------------------------------------
\* Specifications
\* ------------------------------------------------------------------------

\* no run is between its trigger and its status
Quiet == \A r \in Runs : pc[r] \in {"idle", "done"}

\* runs one after the other: a trigger fires when no run is in progress, and
\* what the earlier run answered is gone with its process
StartSeq ==
    /\ Quiet
    /\ pc' = [r \in Runs |-> IF r = 1 THEN "construct" ELSE "idle"]
    /\ result' = [q \in Runs |-> NewResult]
    /\ outcome' = [q \in Runs |-> "none"]
    /\ resp' = <<>>
    /\ UNCHANGED <<store, sess, entry, pos, pending, fetched, call, net, work, collected, tweets, limiter>>

RunStep(r) ==
    \/ Construct(r)
    \/ CreateSession(r)
    \/ RunStage(r)
    \/ GetSession(r)
    \/ PersistItem(r)
    \/ BeginDrafts(r)
    \/ PersistDraft(r)
    \/ ListPending(r)
    \/ PersistQuality(r)
    \/ Return(r)

\* runs one after the other, and review requests between them
Next ==
    \/ StartSeq
    \/ \E r \in Runs : RunStep(r)
    \/ Quiet /\ Patch
    \/ Quiet /\ Approve
    \/ Quiet /\ Reject

Spec == Init /\ [][Next]_vars

\* two triggers fire on the same payloads: the agents of every run leave the
\* same lists in its session
SamePayloads ==
    [fixed |-> TRUE,
     collected_items |->
        <<[url |-> <<"a">>, title |-> "t1", source |-> "rss", description |-> "d1"],
          [url |-> <<"b">>, title |-> "t1"]>>,
     shortlisted_items |-> <<[url |-> <<"a">>]>>,
     generated_drafts |->
        <<[item_id |-> <<"x">>, variant |-> 1, content |-> "c1"],
          [item_id |-> <<"x">>, variant |-> 2, content |-> "c2"]>>,
     quality_results |->
        <<[draft_id |-> <<"x", "_", "v", "1">>, passed |-> FALSE, score |-> 40,
           issues |-> <<"hype">>],
          [draft_id |-> <<"x", "_", "v", "2">>, passed |-> TRUE, score |-> 90]>>]

InitConc == InitStore /\ InitRuns /\ InitTools /\ fetched = SamePayloads

\* runs side by side: every store call of a run is a step of its own
NextConc ==
    \/ \E r \in Runs : Start(r)
    \/ \E r \in Runs : RunStep(r)

SpecConc == InitConc /\ [][NextConc]_vars

\* _persist_results of one run alone, on the collections it is given, with
\* the lists f and a store that answers every call
RECURSIVE ItemsLoop(_, _, _)
ItemsLoop(coll, list, t) ==
    IF list = <<>> THEN coll
    ELSE ItemsLoop(persist_item(coll, NewResult, Head(list), t, "none").coll,
                   Tail(list), t)

RECURSIVE DraftsLoop(_, _, _)
DraftsLoop(coll, list, t) ==
    IF list = <<>> THEN [coll |-> coll, now |-> t]
    ELSE LET out == persist_draft(coll, NewResult, Head(list), t, "none")
         IN  DraftsLoop(out.coll, Tail(list), out.now)

RECURSIVE QualityLoop(_, _, _, _, _)
QualityLoop(coll, list, idx, all_draft_ids, t) ==
    IF idx = Len(list) THEN coll
    ELSE QualityLoop(persist_quality(coll, NewResult, list[idx + 1], idx,
                                     all_draft_ids, t, "none").coll,
                     list, idx + 1, all_draft_ids, t)

persist_results(st, f) ==
    LET saved == DraftsLoop(st.drafts, f.generated_drafts, st.now)
    IN  [items |-> ItemsLoop(st.items, f.collected_items, st.now),
         drafts |-> QualityLoop(saved.coll, f.quality_results, 0,
                                list_drafts(saved.coll, "pending", PendingListLimit),
                                saved.now),
         now |-> saved.now]

\* one run on payloads drawn from the inputs, over a store that an earlier
\* run may have left a pending draft in

\* longest list an agent leaves in the session
MaxPayload == 2

\* the lists of at most n entries of S
Lists(S, n) == UNION {[1..k -> S] : k \in 0..n}

\* what an earlier run left behind: it persisted one draft, and its quality
\* guard returned nothing
EarlierRun ==
    persist_results([items |-> EmptyDoc, drafts |-> EmptyDoc, now |-> 0],
                    [collected_items |-> <<>>,
                     generated_drafts |-> <<[item_id |-> <<"y", "/", "z">>, content |-> "c1"]>>,
                     quality_results |-> <<>>])

Payloads ==
    { [fixed |-> TRUE,
       collected_items |-> <<[url |-> <<"a">>, title |-> "t1", source |-> "rss",
                              description |-> "d1"]>>,
       shortlisted_items |-> <<>>,
       generated_drafts |-> g,
       quality_results |-> q] :
          g \in Lists(DraftInputs, MaxPayload), q \in Lists(QualityInputs, MaxPayload) }

InitPersist ==
    /\ items = EmptyDoc
    /\ drafts \in {EmptyDoc, EarlierRun.drafts}
    /\ now = 1
    /\ resp = <<>>
    /\ work = 0
    /\ collected = 0
    /\ tweets = <<>>
    /\ limiter = NoTraffic
    /\ InitRuns
    /\ InitTools
    /\ fetched \in Payloads

NextPersist ==
    \/ Start(1)
    \/ RunStep(1)

SpecPersist == InitPersist /\ [][NextPersist]_vars

\* the two review front-ends on the drafts a run persisted: the dashboard's
\* endpoints and the buttons of the Telegram bot

\* a press of the bot's approve or reject button under a draft; the bot
\* answers in the chat
Callback ==
    \E id \in ReviewTargets, action \in {"approve", "reject"},
       post \in {"off", "ok", "fails"} :
      LET out == handle_callback(drafts, action, id, post, now)
      IN  /\ drafts' = out.coll
          /\ tweets' = tweets \o out.posts
          /\ resp' = <<>>
          /\ work < MaxWork
          /\ work' = work + 1
          /\ ReviewFrame

\* the drafts a run's generator left, persisted
PersistedDrafts ==
    { persist_results([items |-> EmptyDoc, drafts |-> EmptyDoc, now |-> 0],
                      [collected_items |-> <<>>, generated_drafts |-> g,
                       quality_results |-> <<>>]).drafts :
        g \in Lists(DraftInputs, MaxPayload) }

InitReview ==
    /\ items = EmptyDoc
    /\ drafts \in PersistedDrafts
    /\ now = 1
    /\ resp = <<>>
    /\ work = 0
    /\ collected = 0
    /\ tweets = <<>>
    /\ limiter = NoTraffic
    /\ InitRuns
    /\ InitTools
    /\ fetched = NoFetch

NextReview ==
    \/ Patch
    \/ Approve
    \/ Reject
    \/ Callback

SpecReview == InitReview /\ [][NextReview]_vars

\* ------------------------------------------------------------------------
\* agents/collector_agent.py : the retry wrapper and the fetchers
\* ------------------------------------------------------------------------
MAX_RETRIES == 3

\* feeds, subreddits or stories that one fetcher walks through
MaxSources == 2

\* what the server does to one request: a response that raise_for_status
\* accepts, a 429 (with a Retry-After that int() accepts, or one it does
\* not), a timeout, a refused connection, a 5xx, another 4xx
Outcomes == {"ok", "rate_limited", "bad_retry_after", "timeout", "connect_error",
             "server_error", "client_error"}

\* a loop that would not count a rate-limited request as an attempt
NextAttemptUncounted(attempt, o) == IF o = "rate_limited" THEN attempt ELSE attempt + 1

\* for attempt in range(MAX_RETRIES): every pass of the body uses an attempt
NextAttempt(attempt, o) == attempt + 1

\* a wrapper that would retry a 4xx like a 5xx (a faulty variant, to compare)
request_with_retry_retrying_4xx(w, o) ==
    LET n == NextAttempt(w.attempt, o)
        sent == [w EXCEPT !.reqs = @ + 1]
        retry(e) == IF n < MAX_RETRIES
                    THEN [sent EXCEPT !.attempt = n, !.last_exc = e]
                    ELSE [sent EXCEPT !.attempt = n, !.last_exc = e, !.ret = "raised",
                                      !.exc = IF e = "none" THEN "HTTPError" ELSE e]
    IN  CASE o = "ok" -> [sent EXCEPT !.ret = "returned"]
          [] o = "rate_limited" -> retry(w.last_exc)
          [] o = "bad_retry_after" -> [sent EXCEPT !.ret = "raised", !.exc = "ValueError"]
          [] o = "timeout" -> retry("TimeoutException")
          [] o = "connect_error" -> retry("ConnectError")
          [] OTHER -> retry("HTTPStatusError")

\* a wrapper that would hand back the response of its last attempt whatever
\* its status (a faulty variant, to compare)
request_with_retry_returning_last(w, o) ==
    LET n == NextAttempt(w.attempt, o)
        sent == [w EXCEPT !.reqs = @ + 1]
        retry(e) == IF n < MAX_RETRIES
                    THEN [sent EXCEPT !.attempt = n, !.last_exc = e]
                    ELSE [sent EXCEPT !.attempt = n, !.last_exc = e, !.ret = "returned"]
    IN  CASE o = "ok" -> [sent EXCEPT !.ret = "returned"]
          [] o = "rate_limited" -> retry(w.last_exc)
          [] o = "bad_retry_after" -> [sent EXCEPT !.ret = "raised", !.exc = "ValueError"]
          [] o = "timeout" -> retry("TimeoutException")
          [] o = "connect_error" -> retry("ConnectError")
          [] o = "server_error" -> retry("HTTPStatusError")
          [] OTHER -> [sent EXCEPT !.ret = "raised", !.exc = "HTTPStatusError"]

\* one pass of the loop body of _request_with_retry over its locals w, the
\* request having outcome o; the raise after the loop is part of the last pass
request_with_retry(w, o) ==
    LET n == NextAttempt(w.attempt, o)
        sent == [w EXCEPT !.reqs = @ + 1]
        raise(e) == [sent EXCEPT !.ret = "raised", !.exc = e]
        retry(e) == IF n < MAX_RETRIES
                    THEN [sent EXCEPT !.attempt = n, !.last_exc = e]
                    ELSE [sent EXCEPT !.attempt = n, !.last_exc = e, !.ret = "raised",
                                      !.exc = IF e = "none" THEN "HTTPError" ELSE e]
    IN  CASE o = "ok" -> [sent EXCEPT !.ret = "returned"]
          [] o = "rate_limited" -> retry(w.last_exc)
          [] o = "bad_retry_after" -> raise("ValueError")
          [] o = "timeout" -> retry("TimeoutException")
          [] o = "connect_error" -> retry("ConnectError")
          [] o = "server_error" -> retry("HTTPStatusError")
          [] OTHER -> raise("HTTPStatusError")

\* the tools of the collector agent, in the order of its tool list
Fetchers == <<"github", "hackernews", "arxiv", "rss", "reddit", "producthunt">>

\* a fetcher makes one request ("single"), one request per feed or
\* subreddit ("sources"), or one for a listing and then one per story
Shape(f) ==
    CASE f \in {"github", "arxiv", "producthunt"} -> "single"
      [] f = "hackernews" -> "listing"
      [] OTHER -> "sources"

\* the next fetcher of the batch is called: its locals are fresh
Enter(n, i) ==
    IF i > Len(Fetchers)
    THEN [n EXCEPT !.at = "done", !.fetcher = i, !.src = 0, !.items = <<>>, !.w = NewCall]
    ELSE [n EXCEPT !.at = "request", !.fetcher = i, !.items = <<>>, !.w = NewCall,
                   !.src = IF Shape(Fetchers[i]) = "sources" THEN 1 ELSE 0]

ReturnResult(n, res) == Enter([n EXCEPT !.results = Append(@, res)], n.fetcher + 1)

\* return {"status": "success", "items": items, "count": len(items)}
Success(n) == ReturnResult(n, [status |-> "success", items |-> n.items])

\* an outer handler that would hand back the items gathered so far
ErrorWithItems(n) == ReturnResult(n, [status |-> "error", items |-> n.items])

\* except Exception: return {"status": "error", "error_message": ..., "items": []}
Error(n) == ReturnResult(n, [status |-> "error", items |-> <<>>])

\* the loop over the feeds, subreddits or stories goes on, or the fetcher returns
NextSource(n) ==
    IF Shape(Fetchers[n.fetcher]) = "single" \/ n.src >= MaxSources
    THEN Success(n)
    ELSE [n EXCEPT !.at = "request", !.src = @ + 1, !.w = NewCall]

\* the inner try of the multi-source fetchers covers request and parsing of
\* one feed or subreddit, but only the request of one story
InInnerTry(n, where) ==
    \/ Shape(Fetchers[n.fetcher]) = "sources"
    \/ Shape(Fetchers[n.fetcher]) = "listing" /\ n.src > 0 /\ where = "request"

\* an exception inside the fetcher: the inner handler logs it and continues
\* with the next source, the outer handler returns the error result
Raise(n, where) ==
    LET m == [n EXCEPT !.raised_in = @ \cup {n.fetcher}]
    IN  IF InInnerTry(n, where) THEN NextSource(m) ELSE Error(m)

ToolFrame == UNCHANGED <<store, pc, sess, entry, pos, pending, result, outcome, resp,
                         fetched, work, collected, tweets, limiter>>

\* the collector agent starts calling its tools
BeginBatch ==
    /\ net.at = "idle"
    /\ net' = Enter(net, 1)
    /\ UNCHANGED call
    /\ ToolFrame

\* client.request(...) inside _request_with_retry, and what follows from it
Request ==
    /\ net.at = "request"
    /\ \E o \in Outcomes :
         LET w == request_with_retry(net.w, o)
         IN  net' = CASE w.ret = "pending" -> [net EXCEPT !.w = w]
                      [] w.ret = "returned" -> [net EXCEPT !.w = w, !.at = "parse"]
                      [] OTHER -> Raise([net EXCEPT !.w = w], "request")
    /\ UNCHANGED call
    /\ ToolFrame

\* the response is read: its entries become items (the listing of story
\* ids gives none itself), or the reading raises (resp.json(),
\* ET.fromstring, a missing key)
Parse ==
    /\ net.at = "parse"
    /\ \E parsed \in BOOLEAN :
         net' = CASE ~parsed -> Raise(net, "parse")
                  [] Shape(Fetchers[net.fetcher]) = "listing" /\ net.src = 0 -> NextSource(net)
                  [] OTHER ->
                       NextSource([net EXCEPT !.items = Append(@, <<net.fetcher, net.src>>)])
    /\ UNCHANGED call
    /\ ToolFrame

NextFetch == BeginBatch \/ Request \/ Parse

\* every request ends within HTTP_TIMEOUT and every sleep is finite, so a
\* fetcher that can take a step takes one
SpecFetch == Init /\ [][NextFetch]_vars /\ WF_vars(NextFetch)

\* ------------------------------------------------------------------------
\* pipeline.py : ContentPipeline._parse_json_from_state
\*
\* A Python value carries its type in t; every object of the model has at
\* most the one key "k", so a dict is kept as <<>> or <<the value of k>>.
\* A string is a sequence of tokens:
\* brackets, braces, the comma, "k:" for an object key with its colon, "1"
\* for a scalar, "t" for a character that JSON has no use for, " " for
\* white space, and DeepOpen for a run of opening brackets longer than the
\* interpreter's recursion limit.
\* ------------------------------------------------------------------------
PyInt == [t |-> "int", v |-> <<>>]
PyList(elems) == [t |-> "list", v |-> elems]
PyDict(members) == [t |-> "dict", v |-> members]
PyStr(tokens) == [t |-> "str", v |-> tokens]

DeepOpen == "[[[...["
Tokens == {"[", "]", "{", "}", "k:", "1", "t", DeepOpen}

\* longest enumerated string, in tokens
MaxTokens == 4

\* JSON string literals, each one token: one that holds plain text, one
\* that holds the text of an object, and one that holds the latter literal
\* (an object encoded twice); ContentOf is the str that json.loads makes of it
LitText == "\"t\""
LitObject == "\"{k:1}\""
LitLitObject == "\"\\\"{k:1}\\\"\""
Literals == {LitText, LitObject, LitLitObject}
ContentOf(tok) ==
    CASE tok = LitText -> <<"t">>
      [] tok = LitObject -> <<"{", "k:", "1", "}">>
      [] OTHER -> <<LitObject>>

RECURSIVE Strings(_)
Strings(n) ==
    IF n = 0 THEN {<<>>}
    ELSE LET S == Strings(n - 1)
         IN  S \cup {Append(x, tok) : x \in {y \in S : Len(y) = n - 1}, tok \in Tokens}

RECURSIVE SkipWs(_, _)
SkipWs(s, i) == IF i <= Len(s) /\ s[i] \in Whitespace THEN SkipWs(s, i + 1) ELSE i

Fail(e) == [err |-> e, v |-> PyNone, next |-> 0]
Ok(v, n) == [err |-> "none", v |-> v, next |-> n]

\* the JSON scanner: a value at position i of s, the elements of an array
\* after its opening bracket, the members of an object after its brace
RECURSIVE ParseValue(_, _), ParseElems(_, _, _), ParseMembers(_, _, _)
ParseValue(s, i) ==
    LET j == SkipWs(s, i)
        k == SkipWs(s, j + 1)
    IN  IF j > Len(s) THEN Fail("JSONDecodeError")
        ELSE CASE s[j] = "1" -> Ok(PyInt, j + 1)
               [] s[j] = DeepOpen -> Fail("RecursionError")
               [] s[j] \in Literals -> Ok([t |-> "str", v |-> ContentOf(s[j])], j + 1)
               [] s[j] = "[" -> IF k <= Len(s) /\ s[k] = "]" THEN Ok(PyList(<<>>), k + 1)
                                ELSE ParseElems(s, k, <<>>)
               [] s[j] = "{" -> IF k <= Len(s) /\ s[k] = "}" THEN Ok(PyDict(<<>>), k + 1)
                                ELSE ParseMembers(s, k, <<>>)
               [] OTHER -> Fail("JSONDecodeError")

ParseElems(s, i, acc) ==
    LET r == ParseValue(s, i)
        k == SkipWs(s, r.next)
    IN  IF r.err # "none" THEN r
        ELSE IF k > Len(s) THEN Fail("JSONDecodeError")
        ELSE CASE s[k] = "," -> ParseElems(s, k + 1, Append(acc, r.v))
               [] s[k] = "]" -> Ok(PyList(Append(acc, r.v)), k + 1)
               [] OTHER -> Fail("JSONDecodeError")

ParseMembers(s, i, acc) ==
    LET j == SkipWs(s, i)
        r == ParseValue(s, j + 1)
        k == SkipWs(s, r.next)
        members == <<r.v>>
    IN  IF j > Len(s) \/ s[j] # "k:" THEN Fail("JSONDecodeError")
        ELSE IF r.err # "none" THEN r
        ELSE IF k > Len(s) THEN Fail("JSONDecodeError")
        ELSE CASE s[k] = "," -> ParseMembers(s, k + 1, members)
               [] s[k] = "}" -> Ok(PyDict(members), k + 1)
               [] OTHER -> Fail("JSONDecodeError")

\* json.loads: the whole text must be one value; a nesting deeper than the
\* recursion limit raises RecursionError, every other failure JSONDecodeError
json_loads(s) ==
    LET r == ParseValue(s, 1)
    IN  IF r.err # "none" THEN [raised |-> r.err, v |-> PyNone]
        ELSE IF SkipWs(s, r.next) <= Len(s) THEN [raised |-> "JSONDecodeError", v |-> PyNone]
        ELSE [raised |-> "none", v |-> r.v]

\* str.find and str.rfind of a one-character needle, counting from 1: 0 is
\* Python's -1.  A run of brackets is found as a bracket.
Matches(tok, ch) == tok = ch \/ (ch = "[" /\ tok = DeepOpen)
find(s, ch) ==
    IF \E i \in 1..Len(s) : Matches(s[i], ch)
    THEN CHOOSE i \in 1..Len(s) : Matches(s[i], ch) /\ \A j \in 1..(i - 1) : ~Matches(s[j], ch)
    ELSE 0
rfind(s, ch) ==
    IF \E i \in 1..Len(s) : Matches(s[i], ch)
    THEN CHOOSE i \in 1..Len(s) : Matches(s[i], ch) /\ \A j \in (i + 1)..Len(s) : ~Matches(s[j], ch)
    ELSE 0

\* value[start : end + 1]
Slice(s, start, end) == SubSeq(s, start, end)

Returned(v) == [raised |-> "none", v |-> v]

\* _parse_json_from_state(value): what it returns, or the exception that
\* leaves it (only JSONDecodeError is caught)
parse_json_from_state(value) ==
    LET text == Strip(value.v)
        arr == json_loads(Slice(text, find(text, "["), rfind(text, "]")))
        obj == json_loads(Slice(text, find(text, "{"), rfind(text, "}")))
        try_object ==
            IF find(text, "{") # 0 /\ rfind(text, "}") # 0
            THEN CASE obj.raised = "none" ->
                        Returned(IF obj.v.t = "dict" THEN PyList(<<obj.v>>) ELSE PyList(<<>>))
                   [] obj.raised = "JSONDecodeError" -> Returned(PyList(<<>>))
                   [] OTHER -> obj
            ELSE Returned(PyList(<<>>))
    IN  CASE value.t = "list" -> Returned(value)
          [] value.t = "str" ->
               IF find(text, "[") # 0 /\ rfind(text, "]") # 0
               THEN CASE arr.raised = "none" -> arr
                      [] arr.raised = "JSONDecodeError" -> try_object
                      [] OTHER -> arr
               ELSE try_object
          [] OTHER -> Returned(PyList(<<>>))

\* a JSON document as text
RECURSIVE Dump(_), DumpFrom(_, _)
DumpFrom(elems, i) ==
    IF i > Len(elems) THEN <<>>
    ELSE (IF i > 1 THEN <<",">> ELSE <<>>) \o Dump(elems[i]) \o DumpFrom(elems, i + 1)
Dump(v) ==
    CASE v.t = "int" -> <<"1">>
      [] v.t = "list" -> <<"[">> \o DumpFrom(v.v, 1) \o <<"]">>
      [] OTHER -> IF v.v = <<>> THEN <<"{", "}">>
                  ELSE <<"{", "k:">> \o Dump(v.v[1]) \o <<"}">>

\* the values left in the session state by the stages: native lists, other
\* native values, every string of up to MaxTokens tokens, and longer
\* strings with white space, commas and nested documents
Documents ==
    {PyList(<<>>), PyList(<<PyInt>>), PyList(<<PyDict(<<PyInt>>)>>),
     PyList(<<PyDict(<<PyInt>>), PyDict(<<PyInt>>)>>),
     PyDict(<<>>), PyDict(<<PyInt>>), PyDict(<<PyList(<<PyInt, PyInt>>)>>)}
Garbage == {<<>>, <<"t">>, <<" ", "t">>, <<"t", " ">>, <<"t", "[", "1", "]", "t">>, <<"t", "]">>}
NativeValues == {v \in Documents : v.t = "list"} \cup {PyDict(<<>>), PyNone, PyInt}
StringValues ==
    {PyStr(s) : s \in Strings(MaxTokens)}
      \cup {PyStr(pre \o Dump(d) \o post) : pre \in Garbage, d \in Documents, post \in Garbage}

\* ------------------------------------------------------------------------
\* agents/ranker_agent.py : shortlist_top_items
\*
\* A scored item is known by its place in the arrival order; its
\* relevance_score is a number, is missing, or is null.
\* ------------------------------------------------------------------------
MaxItems == 3
ScoreKinds == {[kind |-> "number", n |-> 59], [kind |-> "number", n |-> 60],
               [kind |-> "number", n |-> 80], [kind |-> "number", n |-> 95],
               [kind |-> "missing", n |-> 0], [kind |-> "null", n |-> 0]}

\* item.get("relevance_score", 0)
relevance_score(item) == IF item.kind = "missing" THEN 0 ELSE item.n

\* a sort that would put an item before the earlier items of equal score
InsertDescUnstable(sorted, item) ==
    LET before == {i \in 1..Len(sorted) : relevance_score(sorted[i]) > relevance_score(item)}
        n == Cardinality(before)
    IN  SubSeq(sorted, 1, n) \o <<item>> \o SubSeq(sorted, n + 1, Len(sorted))

\* list.sort(key=..., reverse=True) is stable: an item goes behind every
\* earlier item whose score is not smaller
InsertDesc(sorted, item) ==
    LET before == {i \in 1..Len(sorted) : relevance_score(sorted[i]) >= relevance_score(item)}
        n == Cardinality(before)
    IN  SubSeq(sorted, 1, n) \o <<item>> \o SubSeq(sorted, n + 1, Len(sorted))

RECURSIVE SortDesc(_)
SortDesc(list) ==
    IF list = <<>> THEN <<>>
    ELSE InsertDesc(SortDesc(SubSeq(list, 1, Len(list) - 1)), list[Len(list)])

\* list[:n], for a negative n as well
Prefix(list, n) ==
    IF n >= 0 THEN Take(list, n)
    ELSE SubSeq(list, 1, Len(list) + n)

\* shortlist_top_items(scored_items_json, max_items) for a list of dicts:
\* comparing a null score with 60 raises TypeError, which is caught
shortlist_top_items(scored, max_items) ==
    LET qualified == SortDesc(SelectSeq(scored, LAMBDA item : relevance_score(item) >= 60))
        shortlisted == Prefix(qualified, max_items)
    IN  IF \E i \in 1..Len(scored) : scored[i].kind = "null"
        THEN [status |-> "error", shortlisted |-> <<>>, count |-> 0,
              total_scored |-> 0, total_qualified |-> 0]
        ELSE [status |-> "success", shortlisted |-> shortlisted, count |-> Len(shortlisted),
              total_scored |-> Len(scored), total_qualified |-> Len(qualified)]

\* lists of scored items, each item tagged with its place in the list
Tagged(kinds) == [i \in 1..Len(kinds) |-> [id |-> i, kind |-> kinds[i].kind, n |-> kinds[i].n]]
RECURSIVE ScoreLists(_)
ScoreLists(n) ==
    IF n = 0 THEN {<<>>}
    ELSE LET S == ScoreLists(n - 1)
         IN  S \cup {Append(x, k) : x \in {y \in S : Len(y) = n - 1}, k \in ScoreKinds}
Num(n) == [kind |-> "number", n |-> n]
ShortlistInputs ==
    {[items |-> Tagged(kinds), max_items |-> m] :
        kinds \in ScoreLists(MaxItems) \cup {<<Num(95), Num(61), Num(59), Num(80), Num(60)>>},
        m \in {-1, 0, 1, 2, 10}}

\* ------------------------------------------------------------------------
\* agents/weekly_scheduler_agent.py : compile_weekly_schedule
\* ------------------------------------------------------------------------
WEEKDAYS == <<"Monday", "Tuesday", "Wednesday", "Thursday", "Friday", "Saturday", "Sunday">>
max_per_day == 2

\* most drafts handed to the scheduler
MaxDrafts == 15

\* a loop that would forget to start the count of the new day at zero
AfterPostNoReset(st) ==
    IF st.posts_today + 1 >= max_per_day
    THEN [st EXCEPT !.day_index = @ + 1, !.posts_today = @ + 1]
    ELSE [st EXCEPT !.posts_today = @ + 1]

\* posts_today += 1; if posts_today >= max_per_day: next day, count from 0
AfterPost(st) ==
    IF st.posts_today + 1 >= max_per_day
    THEN [st EXCEPT !.day_index = @ + 1, !.posts_today = 0]
    ELSE [st EXCEPT !.posts_today = @ + 1]

\* for draft in drafts, from the i-th draft on; day_index counts from 0
RECURSIVE ScheduleLoop(_, _, _)
ScheduleLoop(approved, i, st) ==
    IF i > Len(approved) \/ st.day_index >= Len(WEEKDAYS) THEN st.schedule
    ELSE LET slot == [draft_id |-> approved[i].draft_id,
                      scheduled_day |-> WEEKDAYS[st.day_index + 1],
                      day_offset |-> st.day_index]
         IN  ScheduleLoop(approved, i + 1, AfterPost([st EXCEPT !.schedule = Append(@, slot)]))

\* compile_weekly_schedule(approved_drafts_json) for a list of dicts; a date
\* is kept as its distance in days from the Monday the week starts on
compile_weekly_schedule(approved) ==
    IF approved = <<>>
    THEN [status |-> "success", schedule |-> <<>>, total_scheduled |-> 0,
          message |-> "No approved drafts to schedule."]
    ELSE LET schedule == ScheduleLoop(approved, 1,
                            [day_index |-> 0, posts_today |-> 0, schedule |-> <<>>])
         IN  [status |-> "success", schedule |-> schedule,
              total_scheduled |-> Len(schedule), message |-> ""]

ScheduleInputs == {[i \in 1..n |-> [draft_id |-> i]] : n \in 0..MaxDrafts}

\* ------------------------------------------------------------------------
\* agents/quality_guard_agent.py : check_character_limit
\* ------------------------------------------------------------------------
CharLimit == 4000

Max(a, b) == IF a >= b THEN a ELSE b

\* check_character_limit(draft_text), of which it reads len(draft_text) only
check_character_limit(count) ==
    [status |-> "success", char_count |-> count,
     within_limit |-> (count <= CharLimit), over_by |-> Max(0, count - CharLimit)]

TextLengths == {0, 10, 279, 280, 281, 300, 3999, 4000, 4001, 4020}

\* ------------------------------------------------------------------------
\* shared/models.py, shared/utils.py : the identity of a collected item
\* ------------------------------------------------------------------------

\* longest URL handed to SignalItem, in characters
MaxUrl == 3

RECURSIVE UrlTexts(_)
UrlTexts(n) ==
    IF n = 0 THEN {<<>>}
    ELSE LET S == UrlTexts(n - 1)
         IN  S \cup {Append(x, c) : x \in {y \in S : Len(y) = n - 1}, c \in {"a", "b", " "}}

SignalItemInputs ==
    {[url |-> u, title |-> t, source |-> src] :
        u \in UrlTexts(MaxUrl), t \in {"t1", "t2", ""}, src \in {"rss", "github"}}

\* SignalItem(**item_data).item_id next to url_to_id(item_data["url"]), the
\* key the orchestrator looks up before it builds the item
signal_item_id(d) ==
    IF ItemValid(d)
    THEN [raised |-> FALSE, item_id |-> item_id_of(SignalItemOf(d, 0).url),
          key |-> url_to_id(d.url)]
    ELSE [raised |-> TRUE, item_id |-> <<>>, key |-> url_to_id(d.url)]

\* ------------------------------------------------------------------------
\* agents/weekly_scheduler_agent.py : the scheduler tools on any argument
\* ------------------------------------------------------------------------

\* json.loads(x) if isinstance(x, str) else x
LoadsIfStr(value) == IF value.t = "str" THEN json_loads(value.v) ELSE Returned(value)

\* not x
Falsy(v) == v.t = "none" \/ (v.t \in {"list", "dict", "str"} /\ v.v = <<>>)

\* what "for entry in v: entry.get(...)" raises within its first reach
\* elements: an int cannot be iterated (TypeError); the keys of a dict and
\* the elements of a list that are not dicts have no get (AttributeError)
IterationError(v, reach) ==
    CASE v.t = "int" -> "TypeError"
      [] v.t = "dict" -> "AttributeError"
      [] v.t = "list" /\ (\E i \in 1..Len(v.v) : i <= reach /\ v.v[i].t # "dict") ->
           "AttributeError"
      [] OTHER -> "none"

\* a handler that would catch AttributeError as well
CaughtByToolWide(e) == e \in {"JSONDecodeError", "TypeError", "AttributeError"}

\* except (json.JSONDecodeError, TypeError)
CaughtByTool(e) == e \in {"JSONDecodeError", "TypeError"}

ToolError == [raised |-> "none", result |-> [status |-> "error"]]
ToolRaises(e) == [raised |-> e, result |-> [status |-> "none"]]
ToolReturns(res) == [raised |-> "none", result |-> res]

\* how far a scheduler tool gets with its argument before its loop body
\* builds anything: the exception met, "empty" for a falsy value, or "loop"
ToolFront(value, reach) ==
    LET loaded == LoadsIfStr(value)
    IN  CASE loaded.raised # "none" -> loaded.raised
          [] Falsy(loaded.v) -> "empty"
          [] IterationError(loaded.v, reach) # "none" -> IterationError(loaded.v, reach)
          [] OTHER -> "loop"

\* draft.get("draft_id", "") of an object that has no such key
DraftOf(obj) == [draft_id |-> ""]

\* compile_weekly_schedule(approved_drafts_json), whatever it is handed
compile_weekly_schedule_any(value) ==
    LET front == ToolFront(value, max_per_day * Len(WEEKDAYS))
        list == LoadsIfStr(value).v.v
    IN  CASE front = "empty" -> ToolReturns(compile_weekly_schedule(<<>>))
          [] front = "loop" ->
               ToolReturns(compile_weekly_schedule([i \in 1..Len(list) |-> DraftOf(list[i])]))
          [] OTHER -> IF CaughtByTool(front) THEN ToolError ELSE ToolRaises(front)

\* the lines format_schedule_for_display joins for entries without a day
RECURSIVE EntryLines(_)
EntryLines(n) == IF n = 0 THEN <<>> ELSE <<"\n", "[Draft ID: ]", "">> \o EntryLines(n - 1)

\* format_schedule_for_display(schedule_json), whatever it is handed
format_schedule_for_display(value) ==
    LET list == LoadsIfStr(value).v.v
        front == ToolFront(value, Len(list))
    IN  CASE front = "empty" ->
               ToolReturns([status |-> "success",
                            formatted |-> <<"No posts scheduled for this week.">>, total |-> 0])
          [] front = "loop" ->
               ToolReturns([status |-> "success",
                            formatted |-> <<"=", "WEEKLY POSTING SCHEDULE", "=", "">>
                                            \o EntryLines(Len(list)) \o <<"=", "Total posts">>,
                            total |-> Len(list)])
          [] OTHER -> IF CaughtByTool(front) THEN ToolError ELSE ToolRaises(front)

\* arguments of the scheduler tools: JSON texts, text that is not JSON, and
\* native values
ScheduleTexts ==
    {PyStr(Dump(d)) : d \in Documents} \cup {PyStr(<<"t">>), PyStr(<<"1">>), PyStr(<<DeepOpen, "]">>)}

\* ------------------------------------------------------------------------
\* shared/utils.py : sanitize_for_prompt
\*
\* A text is a sequence of tokens: single characters ("&", "<", "x", ".",
\* " ", "a", "l", the control character Ctrl), the entity bodies "amp;" and
\* "lt;", and Run, a run of PromptLimit - 1 letters.
\* ------------------------------------------------------------------------
PromptLimit == 2000

Ctrl == "\\x00"
Run == "xxx...x"

\* len() of one token and of a text
TokLen(tok) ==
    CASE tok = "amp;" -> 4 [] tok = "lt;" -> 3 [] tok = Run -> PromptLimit - 1 [] OTHER -> 1
RECURSIVE TextLen(_)
TextLen(s) == IF s = <<>> THEN 0 ELSE TokLen(Head(s)) + TextLen(Tail(s))

\* html.unescape: one pass from the left; what it puts in is not read again
RECURSIVE Unescape(_)
Unescape(s) ==
    IF s = <<>> THEN <<>>
    ELSE IF Len(s) >= 2 /\ s[1] = "&" /\ s[2] = "amp;" THEN <<"&">> \o Unescape(SubSeq(s, 3, Len(s)))
    ELSE IF Len(s) >= 2 /\ s[1] = "&" /\ s[2] = "lt;" THEN <<"<">> \o Unescape(SubSeq(s, 3, Len(s)))
    ELSE <<Head(s)>> \o Unescape(Tail(s))

\* re.sub(r"[\x00-\x09\x0b-\x0c\x0e-\x1f\x7f]", "", text)
RemoveControl(s) == SelectSeq(s, LAMBDA tok : tok # Ctrl)

\* the first character of a token
FirstChar(tok) == CASE tok = "amp;" -> "a" [] tok = "lt;" -> "l" [] tok = Run -> "x" [] OTHER -> tok

\* text[:n]; the texts of the model are cut at most one character into a token
RECURSIVE Cut(_, _)
Cut(s, n) ==
    IF s = <<>> \/ n <= 0 THEN <<>>
    ELSE IF TokLen(Head(s)) <= n THEN <<Head(s)>> \o Cut(Tail(s), n - TokLen(Head(s)))
    ELSE <<FirstChar(Head(s))>>

\* sanitize_for_prompt(text)
sanitize_for_prompt(text) ==
    LET clean == RemoveControl(Unescape(text))
    IN  IF text = <<>> THEN <<>>
        ELSE IF TextLen(clean) > PromptLimit
        THEN Strip(Cut(clean, PromptLimit) \o <<".", ".", ".">>)
        ELSE Strip(clean)

\* longest tail of an input text, in tokens
MaxText == 3

RECURSIVE Tails(_)
Tails(n) ==
    IF n = 0 THEN {<<>>}
    ELSE LET S == Tails(n - 1)
         IN  S \cup {Append(x, tok) : x \in {y \in S : Len(y) = n - 1},
                                     tok \in {"&", "amp;", "lt;", "x", " ", Ctrl}}

\* texts from outside: short ones, and ones beyond the limit that begin with
\* a run of letters, after a blank or not
ExternalTexts ==
    {pre \o mid \o tail : pre \in {<<>>, <<" ">>}, mid \in {<<>>, <<Run>>}, tail \in Tails(MaxText)}

\* ------------------------------------------------------------------------
\* shared/models.py : DraftPost identity, for two drafts side by side
\* ------------------------------------------------------------------------

\* longest item_id of a draft entry, in characters
MaxId == 2

\* item ids as the drafter may leave them: letters, "/" and "_"
RECURSIVE IdTexts(_)
IdTexts(n) ==
    IF n = 0 THEN {<<>>}
    ELSE LET S == IdTexts(n - 1)
         IN  S \cup {Append(x, c) : x \in {y \in S : Len(y) = n - 1}, c \in {"a", "/", "_"}}

\* draft entries with content, an item_id and a variant that validates
DraftEntries ==
    { [item_id |-> i, variant |-> v, content |-> "c1"] :
        i \in IdTexts(MaxId) \ {<<>>}, v \in 1..2 }

\* the draft_id of the DraftPost that _persist_results builds from an entry
draft_id_of(d) == DraftPostOf(d, 0).draft_id

\* ------------------------------------------------------------------------
\* agents/collector_agent.py : _request_with_retry from call to return, with
\* what it sleeps
\* ------------------------------------------------------------------------
RETRY_BACKOFF_BASE == 2

\* RETRY_BACKOFF_BASE ** (attempt + 1)
Backoff(attempt) == RETRY_BACKOFF_BASE ^ (attempt + 1)

\* the seconds a Retry-After header may name
RetryAfterValues == {1, 30}

\* what the server answers to one request: an outcome, and for a 429 whose
\* Retry-After int() accepts, the header (<<>> when the 429 carries none)
Responses ==
    {[o |-> o, retry_after |-> <<>>] : o \in Outcomes}
      \cup {[o |-> "rate_limited", retry_after |-> <<n>>] : n \in RetryAfterValues}

\* the time.sleep of one pass of the loop body: <<>> when the pass does not
\* sleep, else <<seconds>>
Sleep(attempt, answer) ==
    CASE answer.o = "rate_limited" ->
           <<IF answer.retry_after = <<>> THEN Backoff(attempt) ELSE answer.retry_after[1]>>
      [] answer.o \in {"timeout", "connect_error", "server_error"} -> <<Backoff(attempt)>>
      [] OTHER -> <<>>

\* the whole call against a server that answers the requests with the
\* responses of script, in order: the final locals, and per pass the
\* response and the sleep
RECURSIVE RetryLoop(_, _, _)
RetryLoop(w, script, log) ==
    IF w.ret # "pending" \/ script = <<>> THEN [w |-> w, log |-> log]
    ELSE RetryLoop(request_with_retry(w, Head(script).o), Tail(script),
                   Append(log, [resp |-> Head(script),
                                slept |-> Sleep(w.attempt, Head(script))]))

request_with_retry_call(script) == RetryLoop(NewCall, script, <<>>)

\* the servers: one response for each request the wrapper can make
Scripts == [1..MAX_RETRIES -> Responses]

\* ------------------------------------------------------------------------
\* agents/ranker_agent.py : score_items
\* ------------------------------------------------------------------------

\* the list the loop walks: raw, or [raw] for a dict, or [] for anything else
RawList(v) ==
    CASE v.t = "list" -> v.v
      [] v.t = "dict" -> <<v>>
      [] OTHER -> <<>>

\* one item of raw: "keep" with the dict to append, "skip", or the exception
\* that leaves the loop.  The dicts of the model hold no title and no
\* description, so both are set to sanitize_for_prompt("") = ""
ScoreItem(item) ==
    LET decoded == IF item.t = "str" THEN json_loads(item.v) ELSE Returned(item)
    IN  CASE decoded.raised \in {"JSONDecodeError", "TypeError"} ->
               [act |-> "skip", e |-> "none", item |-> PyNone]
          [] decoded.raised # "none" -> [act |-> "raise", e |-> decoded.raised, item |-> PyNone]
          [] decoded.v.t = "dict" -> [act |-> "keep", e |-> "none", item |-> decoded.v]
          [] OTHER -> [act |-> "skip", e |-> "none", item |-> PyNone]

\* "for item in raw": the items kept so far, or the exception
RECURSIVE ScoreLoop(_, _)
ScoreLoop(raw, kept) ==
    IF raw = <<>> THEN [raised |-> "none", items |-> kept]
    ELSE LET r == ScoreItem(Head(raw))
         IN  CASE r.act = "raise" -> [raised |-> r.e, items |-> kept]
               [] r.act = "keep" ->
                    ScoreLoop(Tail(raw),
                              Append(kept, [item |-> r.item, title |-> <<>>,
                                            description |-> sanitize_for_prompt(<<>>)]))
               [] OTHER -> ScoreLoop(Tail(raw), kept)

\* except (json.JSONDecodeError, TypeError, AttributeError)
CaughtByRanker(e) == e \in {"JSONDecodeError", "TypeError", "AttributeError"}

\* score_items(items_json)
score_items(value) ==
    LET loaded == LoadsIfStr(value)
        looped == ScoreLoop(RawList(loaded.v), <<>>)
        failure == IF loaded.raised # "none" THEN loaded.raised ELSE looped.raised
    IN  IF failure = "none"
        THEN [raised |-> "none", status |-> "success", items |-> looped.items,
              count |-> Len(looped.items)]
        ELSE IF CaughtByRanker(failure)
        THEN [raised |-> "none", status |-> "error", items |-> <<>>, count |-> 0]
        ELSE [raised |-> failure, status |-> "none", items |-> <<>>, count |-> 0]

\* longest list handed to score_items
MaxScored == 2

\* items as the collector stage may leave them: dicts and other native
\* values; strings that encode a dict once or twice, and strings that
\* encode none
NativeItems == {PyDict(<<>>), PyDict(<<PyInt>>), PyInt, PyNone, PyList(<<>>)}
StringItems ==
    {PyStr(<<"{", "}">>), PyStr(<<"{", "k:", "1", "}">>), PyStr(<<"t">>), PyStr(<<"1">>),
     PyStr(<<LitText>>), PyStr(<<LitObject>>), PyStr(<<LitLitObject>>)}

\* what score_items is handed without encoding: lists of native items, a
\* dict, None, a number; lists of items that are strings
NativeScoreInputs ==
    {PyList(l) : l \in Lists(NativeItems, MaxScored)} \cup {PyDict(<<PyInt>>), PyNone, PyInt}
StringScoreInputs == {PyList(l) : l \in Lists(StringItems, MaxScored) \ {<<>>}}

\* ------------------------------------------------------------------------
\* agents/weekly_scheduler_agent.py : the dates of compile_weekly_schedule.
\* A datetime is kept as the proleptic Gregorian ordinal of its day
\* (date.toordinal()); adding timedelta(days=n) adds n
\* ------------------------------------------------------------------------

\* date.weekday(): Monday is 0; ordinal 1 is Monday 0001-01-01
weekday(ordinal) == (ordinal + 6) % 7

\* strftime("%Y-%m-%d"): the civil date of an ordinal, as <<year, month, day>>
strftime(ordinal) ==
    LET z == ordinal + 305
        era == z \div 146097
        doe == z - era * 146097
        yoe == (doe - doe \div 1460 + doe \div 36524 - doe \div 146096) \div 365
        doy == doe - (365 * yoe + yoe \div 4 - yoe \div 100)
        mp == (5 * doy + 2) \div 153
        d == doy - (153 * mp + 2) \div 5 + 1
        m == IF mp < 10 THEN mp + 3 ELSE mp - 9
        y == yoe + era * 400 + (IF m <= 2 THEN 1 ELSE 0)
    IN  <<y, m, d>>

\* a start that would take today when today is a Monday (a faulty variant)
days_until_monday_or_today(today) == (7 - weekday(today)) % 7

\* days_until_monday = (7 - today.weekday()) % 7, and 7 when that is 0
days_until_monday(today) ==
    IF (7 - weekday(today)) % 7 = 0 THEN 7 ELSE (7 - weekday(today)) % 7

\* start_date = today + timedelta(days=days_until_monday)
start_date(today) == today + days_until_monday(today)

\* compile_weekly_schedule called on the day today: the entries with their
\* scheduled_date, and week_starting
compile_weekly_schedule_on(today, approved) ==
    LET res == compile_weekly_schedule(approved)
    IN  IF approved = <<>> THEN [status |-> res.status, schedule |-> <<>>, week_starting |-> <<>>]
        ELSE [status |-> res.status,
              schedule |-> [k \in 1..Len(res.schedule) |->
                              [draft_id |-> res.schedule[k].draft_id,
                               scheduled_day |-> res.schedule[k].scheduled_day,
                               scheduled_date |->
                                 strftime(start_date(today) + res.schedule[k].day_offset)]],
              week_starting |-> strftime(start_date(today))]

\* the days the scheduler is called on: from 2023-12-01 (ordinal FirstDay)
\* for MaxDays days, across a year end and a leap day
FirstDay == 738855
MaxDays == 100
Todays == FirstDay..(FirstDay + MaxDays)

\* ------------------------------------------------------------------------
\* The tool functions, each applied to an input of its domain
\* ------------------------------------------------------------------------
NewToolCall(fn, arg) == [fn |-> fn, arg |-> arg, done |-> FALSE, ret |-> PyNone]

InitCalls ==
    /\ InitStore /\ InitRuns /\ fetched = NoFetch /\ net = NoNet
    /\ \/ \E v \in NativeValues : call = NewToolCall("_parse_json_from_state", v)
       \/ \E v \in StringValues : call = NewToolCall("_parse_json_from_state", v)
       \/ \E a \in ShortlistInputs : call = NewToolCall("shortlist_top_items", a)
       \/ \E a \in ScheduleInputs : call = NewToolCall("compile_weekly_schedule", a)
       \/ \E n \in TextLengths : call = NewToolCall("check_character_limit", n)
       \/ \E a \in SignalItemInputs : call = NewToolCall("SignalItem", a)
       \/ \E v \in NativeValues \cup {PyDict(<<PyInt>>)} : call \in {NewToolCall(fn, v) : fn \in {"compile_weekly_schedule:any", "format_schedule_for_display"}}
       \/ \E v \in ScheduleTexts : call \in {NewToolCall(fn, v) : fn \in {"compile_weekly_schedule:any", "format_schedule_for_display"}}
       \/ \E text \in ExternalTexts : call = NewToolCall("sanitize_for_prompt", text)
       \/ \E a, b \in DraftEntries : call = NewToolCall("DraftPost", [a |-> a, b |-> b])
       \/ \E script \in Scripts : call = NewToolCall("_request_with_retry", script)
       \/ \E v \in NativeScoreInputs : call = NewToolCall("score_items", v)
       \/ \E v \in StringScoreInputs : call = NewToolCall("score_items", v)
       \/ \E n \in NativeItems, str \in StringItems :
            \/ call = NewToolCall("score_items", PyList(<<n, str>>))
            \/ call = NewToolCall("score_items", PyList(<<str, n>>))
       \/ \E tokens \in {Dump(d) : d \in Documents} \cup {<<"[", LitObject, ",", "{", "}", "]">>, <<"[", LitLitObject, "]">>, <<"t">>, <<DeepOpen>>, <<LitObject>>} : call = NewToolCall("score_items", PyStr(tokens))
       \/ \E today \in Todays, a \in ScheduleInputs : call = NewToolCall("compile_weekly_schedule:on", [today |-> today, approved |-> a])

Decode ==
    /\ call.fn = "_parse_json_from_state" /\ ~call.done
    /\ call' = [call EXCEPT !.done = TRUE, !.ret = parse_json_from_state(call.arg)]
    /\ UNCHANGED net
    /\ ToolFrame

Shortlist ==
    /\ call.fn = "shortlist_top_items" /\ ~call.done
    /\ call' = [call EXCEPT !.done = TRUE,
                            !.ret = shortlist_top_items(call.arg.items, call.arg.max_items)]
    /\ UNCHANGED net
    /\ ToolFrame

Schedule ==
    /\ call.fn = "compile_weekly_schedule" /\ ~call.done
    /\ call' = [call EXCEPT !.done = TRUE, !.ret = compile_weekly_schedule(call.arg)]
    /\ UNCHANGED net
    /\ ToolFrame

CheckLimit ==
    /\ call.fn = "check_character_limit" /\ ~call.done
    /\ call' = [call EXCEPT !.done = TRUE, !.ret = check_character_limit(call.arg)]
    /\ UNCHANGED net
    /\ ToolFrame

BuildItem ==
    /\ call.fn = "SignalItem" /\ ~call.done
    /\ call' = [call EXCEPT !.done = TRUE, !.ret = signal_item_id(call.arg)]
    /\ UNCHANGED net
    /\ ToolFrame

ScheduleAny ==
    /\ call.fn = "compile_weekly_schedule:any" /\ ~call.done
    /\ call' = [call EXCEPT !.done = TRUE, !.ret = compile_weekly_schedule_any(call.arg)]
    /\ UNCHANGED net
    /\ ToolFrame

FormatSchedule ==
    /\ call.fn = "format_schedule_for_display" /\ ~call.done
    /\ call' = [call EXCEPT !.done = TRUE, !.ret = format_schedule_for_display(call.arg)]
    /\ UNCHANGED net
    /\ ToolFrame

Sanitize ==
    /\ call.fn = "sanitize_for_prompt" /\ ~call.done
    /\ call' = [call EXCEPT !.done = TRUE, !.ret = sanitize_for_prompt(call.arg)]
    /\ UNCHANGED net
    /\ ToolFrame

BuildDrafts ==
    /\ call.fn = "DraftPost" /\ ~call.done
    /\ call' = [call EXCEPT !.done = TRUE, !.ret = <<draft_id_of(call.arg.a), draft_id_of(call.arg.b)>>]
    /\ UNCHANGED net
    /\ ToolFrame

Retry ==
    /\ call.fn = "_request_with_retry" /\ ~call.done
    /\ call' = [call EXCEPT !.done = TRUE, !.ret = request_with_retry_call(call.arg)]
    /\ UNCHANGED net
    /\ ToolFrame

Score ==
    /\ call.fn = "score_items" /\ ~call.done
    /\ call' = [call EXCEPT !.done = TRUE, !.ret = score_items(call.arg)]
    /\ UNCHANGED net
    /\ ToolFrame

ScheduleOn ==
    /\ call.fn = "compile_weekly_schedule:on" /\ ~call.done
    /\ call' = [call EXCEPT !.done = TRUE, !.ret = compile_weekly_schedule_on(call.arg.today, call.arg.approved)]
    /\ UNCHANGED net
    /\ ToolFrame

NextTools == Decode \/ Shortlist \/ Schedule \/ CheckLimit \/ BuildItem
               \/ ScheduleAny
               \/ FormatSchedule
               \/ Sanitize
               \/ BuildDrafts
               \/ Retry
               \/ Score
               \/ ScheduleOn

SpecTools == InitCalls /\ [][NextTools]_vars

\* ------------------------------------------------------------------------
\* Properties
\* ------------------------------------------------------------------------

\* the steps of the persistence loops of run r, under Spec, where every
\* entry handled is counted in work; the entry handled is entry'[r]
ItemStep(r) == pc[r] = "items" /\ pc'[r] = "items" /\ work' = work + 1
DraftStep(r) == pc[r] = "drafts" /\ pc'[r] = "drafts" /\ work' = work + 1
QualityStep(r) == pc[r] = "quality" /\ pc'[r] = "quality" /\ work' = work + 1

\* the (item_id, variant) pair of a draft entry or document
PairOf(d) == <<Get(d, "item_id", <<"u", "n", "k", "n", "o", "w", "n">>), Get(d, "variant", 1)>>

\* no two item documents hold the same trimmed URL, no two draft documents
\* the same (item_id, variant) pair, and a document is stored under the id
\* derived from what it holds
OneDocument ==
    /\ \A i, j \in DOMAIN items :
         Strip(items[i].url) = Strip(items[j].url) => i = j
    /\ \A i \in DOMAIN items : i = url_to_id(items[i].url)
    /\ \A i, j \in DOMAIN drafts : PairOf(drafts[i]) = PairOf(drafts[j]) => i = j
    /\ \A i \in DOMAIN drafts : i = drafts[i].draft_id

\* an entry whose trimmed URL, or whose pair, is stored already adds no
\* document; any other entry adds at most the one document of its URL or pair
NoDuplicate ==
    \A r \in Runs :
      /\ ItemStep(r) =>
           LET d == entry'[r]
           IN  IF "url" \in DOMAIN d
                  /\ \E i \in DOMAIN items : Strip(items[i].url) = Strip(d.url)
               THEN DOMAIN items' = DOMAIN items
               ELSE /\ Cardinality(DOMAIN items') <= Cardinality(DOMAIN items) + 1
                    /\ \A i \in DOMAIN items' \ DOMAIN items :
                         items'[i].url = Strip(d.url)
      /\ DraftStep(r) =>
           LET d == entry'[r]
           IN  IF \E i \in DOMAIN drafts : PairOf(drafts[i]) = PairOf(d)
               THEN DOMAIN drafts' = DOMAIN drafts
               ELSE /\ Cardinality(DOMAIN drafts') <= Cardinality(DOMAIN drafts) + 1
                    /\ \A i \in DOMAIN drafts' \ DOMAIN drafts :
                         PairOf(drafts'[i]) = PairOf(d)

\* C1: in sequential runs the items collection holds one document per
\* trimmed URL and the drafts collection one document per (item_id, variant)
\* pair, and collecting a URL or generating a pair again adds no document
C1_Idempotent == []OneDocument /\ [][NoDuplicate]_vars

\* a later run has met the stored URL "a" again, padded and retitled, and
\* saved a draft: the store holds the one item document and one draft document
C1_Witness ==
    /\ DOMAIN items = {url_to_id(<<"a">>)}
    /\ \E r \in Runs :
         /\ pc[r] = "drafts"
         /\ result[r].items_collected = 0
         /\ result[r].errors = <<>>
         /\ result[r].drafts_generated = 1
         /\ DOMAIN drafts = {<<"x", "_", "v", "1">>}

\* the item document a step of run r creates, if any
Created(r) == DOMAIN items' \ DOMAIN items

\* C6: a run adds one to items_collected exactly when the entry it handles
\* creates the item document of a fingerprint the store lacked, and never for
\* a fingerprint the store holds; over sequential runs the increments add up
\* to the number of item documents, one per URL
C6_CountedOnce ==
    /\ [](collected = Cardinality(DOMAIN items))
    /\ [][\A r \in Runs :
            /\ ItemStep(r) =>
                 /\ result'[r].items_collected - result[r].items_collected
                      = Cardinality(Created(r))
                 /\ Cardinality(Created(r)) <= 1
                 /\ ("url" \in DOMAIN entry'[r] /\ url_to_id(entry'[r].url) \in DOMAIN items)
                      => result'[r].items_collected = result[r].items_collected
            /\ ~ItemStep(r) => result'[r].items_collected \in {0, result[r].items_collected}
         ]_vars

\* a run has counted "a" and met it again in the same batch, padded
C6_Witness ==
    \E r \in Runs :
      /\ pc[r] = "items"
      /\ result[r].items_collected = 1
      /\ work = 2
      /\ "url" \in DOMAIN entry[r]
      /\ entry[r].url = <<" ", "a", " ">>
      /\ DOMAIN items = {url_to_id(<<"a">>)}

\* C7: in sequential runs no step changes or deletes an item document
C7_ItemImmutable ==
    [][\A i \in DOMAIN items : i \in DOMAIN items' /\ items'[i] = items[i]]_vars

\* the URL "a" was stored with title "t1", and a run has just handled the
\* entry that gives it another title, source, description and metadata
C7_Witness ==
    \E r \in Runs :
      /\ pc[r] = "items"
      /\ "url" \in DOMAIN entry[r]
      /\ entry[r].url = <<" ", "a", " ">>
      /\ entry[r].title = "t2"
      /\ url_to_id(<<"a">>) \in DOMAIN items
      /\ items[url_to_id(<<"a">>)].title = "t1"
      /\ result[r].errors = <<>>

\* the fields a DraftPost specifies, and the fields a stored draft holds
\* besides them
DraftPostFields ==
    {"draft_id", "item_id", "variant", "content", "status", "quality_score",
     "quality_notes", "human_lines", "created_at", "reviewed_at", "review_notes"}

\* the step of run r saved the draft entry d over the stored document id:
\* the fields of the new draft replace the stored ones, the other fields of
\* the document and the other documents stay
MergedInto(id, d) ==
    /\ DOMAIN drafts' = DOMAIN drafts
    /\ \A j \in DOMAIN drafts \ {id} : drafts'[j] = drafts[j]
    /\ DOMAIN drafts'[id] = DOMAIN drafts[id] \cup DraftPostFields
    /\ drafts'[id].content = d.content
    /\ drafts'[id].status = "pending"
    /\ drafts'[id].quality_score = 0
    /\ drafts'[id].quality_notes = ""
    /\ drafts'[id].human_lines = <<>>
    /\ drafts'[id].reviewed_at = <<>>
    /\ drafts'[id].review_notes = ""
    /\ drafts'[id].created_at = now
    /\ PairOf(drafts'[id]) = PairOf(d)
    /\ \A f \in DOMAIN drafts[id] \ DraftPostFields : drafts'[id][f] = drafts[id][f]

\* C5: when a run saves a draft whose (item_id, variant) has a document, the
\* fields the new draft specifies overwrite the stored values, and the fields
\* it does not specify (tweet_id, tweet_url) keep theirs
C5_SaveMerges ==
    [][\A r \in Runs :
         (DraftStep(r) /\ result'[r].drafts_generated = result[r].drafts_generated + 1)
           => \A id \in DOMAIN drafts :
                PairOf(drafts[id]) = PairOf(entry'[r]) => MergedInto(id, entry'[r])
      ]_vars

\* an approved and posted draft has been saved again by a run: it is pending,
\* unreviewed, and still holds its tweet
C5_Witness ==
    \E r \in Runs, id \in DOMAIN drafts :
      /\ pc[r] = "drafts"
      /\ result[r].drafts_generated = 1
      /\ PairOf(entry[r]) = PairOf(drafts[id])
      /\ "tweet_id" \in DOMAIN drafts[id]
      /\ drafts[id].tweet_url = TweetUrl(TweetId)
      /\ drafts[id].status = "pending"
      /\ drafts[id].reviewed_at = <<>>

\* the statuses no draft should leave
Terminal == {"approved", "rejected"}

\* a step changes the status of the stored draft id
StatusChanges(id) == drafts'[id].status # drafts[id].status

\* C4, as the code has it: an approved or rejected status is changed only by
\* a run that saves the same (item_id, variant) again, which makes it
\* pending, or by a review request; a quality result a run applies never
\* changes it
C4_TerminalUnlessResaved ==
    [][\A id \in DOMAIN drafts :
         (drafts[id].status \in Terminal /\ StatusChanges(id))
           => \/ \E r \in Runs : /\ DraftStep(r)
                                 /\ PairOf(entry'[r]) = PairOf(drafts[id])
                                 /\ drafts'[id].status = "pending"
              \/ Quiet /\ resp' = <<200>>
      ]_vars

\* a run has applied a quality result to a draft an earlier result of the
\* same run had rejected: passing, with a score, and the draft stays rejected
C4_Witness ==
    \E r \in Runs, id \in DOMAIN drafts :
      /\ pc[r] = "quality"
      /\ pos[r] = 2
      /\ Get(entry[r], "passed", FALSE)
      /\ ResolveDraftId(entry[r], 1, pending[r]) = <<id>>
      /\ drafts[id].status = "rejected"
      /\ drafts[id].quality_score = entry[r].score

\* C4 as stated: no step changes an approved or rejected status
C4_TerminalForever ==
    [][\A id \in DOMAIN drafts :
         drafts[id].status \in Terminal => ~StatusChanges(id)]_vars

\* the agents of the pipeline, and a step in which one of them fails
StageNames == {Stages[i] : i \in 1..Len(Stages)}
StageFails(r) ==
    pc[r] \in StageNames /\ Len(result'[r].errors) = Len(result[r].errors) + 1

\* C2: a stage that fails after earlier stages have left output in the
\* session is recorded in the error list and the run goes on to persist that
\* output
C2_PersistsAfterStageFailure ==
    [][\A r \in Runs :
         (StageFails(r) /\ sess[r] # {}) => pc'[r] = "items" /\ sess'[r] = sess[r]
      ]_vars

\* a document without its timestamps
Contents(doc) == [f \in DOMAIN doc \ {"created_at", "reviewed_at", "collected_at"} |-> doc[f]]

\* the store a single run leaves from the empty store with the same payloads
SingleRun == persist_results([items |-> EmptyDoc, drafts |-> EmptyDoc, now |-> 1], fetched)

\* every run has returned without an error, having saved every draft of the
\* payload
AllReturnedClean ==
    \A r \in Runs :
      /\ pc[r] = "done"
      /\ outcome[r] = "returned"
      /\ result[r].errors = <<>>
      /\ result[r].drafts_generated = Len(fetched.generated_drafts)

\* C3: when concurrent runs on the same payloads have all returned, the
\* store holds the documents a single run leaves, with the same contents
C3_Converges ==
    AllReturnedClean =>
      /\ DOMAIN items = DOMAIN SingleRun.items
      /\ DOMAIN drafts = DOMAIN SingleRun.drafts
      /\ \A i \in DOMAIN items : Contents(items[i]) = Contents(SingleRun.items[i])
      /\ \A i \in DOMAIN drafts : Contents(drafts[i]) = Contents(SingleRun.drafts[i])

\* C8: run_pipeline never raises: every run that ends has returned a result
\* with completed_at set
C8_NeverRaises ==
    \A r \in Runs :
      pc[r] = "done" => outcome[r] = "returned" /\ result[r].completed_at # <<>>

\* a step appends one entry to the error list of run r and the loop goes on
ErrorAppended(r) ==
    Len(result'[r].errors) = Len(result[r].errors) + 1 /\ pc'[r] = pc[r]

\* C9: a save or update of the persistence phase that fails (the entry is
\* valid, the write would change the store, and the store is unchanged)
\* appends an entry to the error list, and the loop goes on
C9_WriteFailuresRecorded ==
    [][\A r \in Runs :
         /\ (/\ ItemStep(r)
             /\ "url" \in DOMAIN entry'[r]
             /\ ItemValid(entry'[r])
             /\ url_to_id(entry'[r].url) \notin DOMAIN items
             /\ items' = items) => ErrorAppended(r)
         /\ (/\ DraftStep(r)
             /\ DraftHasContent(entry'[r])
             /\ DraftValid(entry'[r])
             /\ drafts' = drafts) => ErrorAppended(r)
         /\ (/\ QualityStep(r)
             /\ ResolveDraftId(entry'[r], pos[r], pending[r]) # <<>>
             /\ update_draft(drafts, ResolveDraftId(entry'[r], pos[r], pending[r])[1],
                             QualityUpdates(entry'[r]), now) # drafts
             /\ drafts' = drafts) => ErrorAppended(r)
      ]_vars

\* C10: for a run that has returned, the CLI exit status is 0 exactly when
\* the error list is empty, and the HTTP status is a failure status exactly
\* when the error list is not empty
C10_StatusReflectsErrors ==
    \A r \in Runs :
      (pc[r] = "done" /\ outcome[r] = "returned") =>
        /\ CliExit(FALSE, result[r].errors) = 0 <=> result[r].errors = <<>>
        /\ HttpStatus(FALSE, result[r].errors) >= 400 <=> result[r].errors # <<>>

\* the places of a run in the order run() passes them
RunOrder ==
    <<"construct", "create_session", "collector", "ranker", "drafter",
      "quality_guard", "get_session", "items", "drafts", "quality">>

\* the position of a place in RunOrder
OrderOf(p) == CHOOSE i \in 1..Len(RunOrder) : RunOrder[i] = p

\* the output keys of the agents that precede position i
KeysBefore(i) == {OutputKey(RunOrder[j]) : j \in {k \in 3..6 : k < i}}

WithBothVariants ==
    {drafts[i].item_id : i \in {j \in DOMAIN drafts :
        \A v \in {1, 2} :
          \E k \in DOMAIN drafts : PairOf(drafts[k]) = <<drafts[j].item_id, v>>}}

\* C12: when a run has returned without an error, each of the items it
\* counted as shortlisted has its two stored drafts, variants 1 and 2
C12_TwoVariantsEach ==
    \A r \in Runs :
      (pc[r] = "done" /\ outcome[r] = "returned" /\ result[r].errors = <<>>)
        => /\ Cardinality(WithBothVariants) >= result[r].items_shortlisted
           /\ result[r].drafts_generated = 2 * result[r].items_shortlisted

\* the fetchers in which each source has a try block of its own
HasInnerTry(i) == Shape(Fetchers[i]) \in {"sources", "listing"}

ErrorResult == [status |-> "error", items |-> <<>>]

C14_RetryBounded ==
    /\ [](net.at = "request" => net.w.reqs < MAX_RETRIES /\ net.w.reqs = net.w.attempt)
    /\ []<>(net.at # "request" \/ net.w.reqs = 0)

\* a call whose two requests failed, the second by a timeout, is about to
\* issue its third and last
C14_Witness ==
    /\ net.at = "request"
    /\ net.w.reqs = 2
    /\ net.w.last_exc = "TimeoutException"

ToolDone(fn) == call.fn = fn /\ call.done

\* the decoder came back with a list
ReturnsList == call.ret.raised = "none" /\ call.ret.v.t = "list"

\* the argument is a JSON array with other text before and after it
Surrounds(array) ==
    /\ array \in Documents /\ array.t = "list"
    /\ \E pre \in Garbage, post \in Garbage : call.arg.v = pre \o Dump(array) \o post

\* the argument is text without any JSON in it: no bracket and no brace
NotJson == \A i \in 1..Len(call.arg.v) : call.arg.v[i] \in {"t", " ", "1", "k:", ","}

\* C15: the payload decoder never raises and always returns a list, for a
\* value of any type: a native list comes back as it is, a string with a
\* JSON array surrounded by other text gives that array, a string that is
\* not JSON and a value that is neither list nor string give the empty list
C15_DecoderTotal ==
    ToolDone("_parse_json_from_state") =>
        /\ ReturnsList
        /\ call.arg.t = "list" => call.ret.v = call.arg
        /\ call.arg.t = "str" => \A array \in Documents : Surrounds(array) => call.ret.v = array
        /\ (call.arg.t = "str" /\ NotJson) => call.ret.v = PyList(<<>>)
        /\ call.arg.t \notin {"list", "str"} => call.ret.v = PyList(<<>>)

\* the places, in the list handed to shortlist_top_items, of the items that
\* carry a numeric score of at least 60
Qualified == {i \in 1..Len(call.arg.items) :
                 call.arg.items[i].kind = "number" /\ call.arg.items[i].n >= 60}

\* item a ranks before item b: higher score, or same score and earlier arrival
RanksBefore(a, b) == a.n > b.n \/ (a.n = b.n /\ a.id < b.id)

Least(a, b) == IF a <= b THEN a ELSE b

\* C17: for n approved drafts the schedule holds the first min(n, 14) of
\* them in input order, the i-th (from 0) on weekday floor(i / 2) of Monday
\* to Sunday; so no weekday has more than 2 entries, 5 drafts take 3
\* weekdays, and a draft beyond the 14th is dropped
C17_WeeklySchedule ==
    ToolDone("compile_weekly_schedule") =>
        LET n == Len(call.arg)
            schedule == call.ret.schedule
            days == {schedule[k].scheduled_day : k \in 1..Len(schedule)}
        IN  /\ call.ret.status = "success"
            /\ Len(schedule) = Least(n, 14)
            /\ call.ret.total_scheduled = Len(schedule)
            /\ \A k \in 1..Len(schedule) :
                 /\ schedule[k].draft_id = call.arg[k].draft_id
                 /\ schedule[k].scheduled_day = WEEKDAYS[((k - 1) \div 2) + 1]
            /\ \A d \in days :
                 Cardinality({k \in 1..Len(schedule) : schedule[k].scheduled_day = d}) <= 2
            /\ n = 5 => Cardinality(days) = 3

\* fifteen drafts were handed in: fourteen are scheduled, the last of them
\* on Sunday, and the fifteenth is not in the schedule
C17_Witness ==
    /\ ToolDone("compile_weekly_schedule")
    /\ Len(call.arg) = 15
    /\ Len(call.ret.schedule) = 14
    /\ call.ret.schedule[14].scheduled_day = "Sunday"
    /\ \A k \in 1..14 : call.ret.schedule[k].draft_id # call.arg[15].draft_id

\* C20: for every text, check_character_limit reports within_limit exactly
\* when the text has at most 280 characters, and over_by as the number of
\* characters beyond 280 (0 when there are none): 300 characters give
\* within_limit false and over_by 20, 280 characters give true and 0
C20_CharacterLimit ==
    ToolDone("check_character_limit") =>
        /\ call.ret.within_limit = (call.arg <= 280)
        /\ call.ret.over_by = Max(0, call.arg - 280)

\* C18: whatever runs and review requests have happened, every document of
\* the drafts collection is a valid DraftPost: its variant is 1 or 2, its
\* status is pending, approved or rejected, its quality_score lies within
\* 0..100; nothing that breaks one of these bounds is ever written
C18_DraftsStayValid == \A id \in DOMAIN drafts : ValidDraftDoc(drafts[id])

\* a direct edit that breaks a validation rule, or names no stored draft
Violates(id, update) ==
    \/ "content" \in DOMAIN update /\ Len(update.content) > 280
    \/ "human_lines" \in DOMAIN update
         /\ Cardinality({k \in 1..Len(update.human_lines) : update.human_lines[k] # ""}) > 2
    \/ DOMAIN update = {}
    \/ id \notin DOMAIN drafts

\* a review request is answered in this step
ReviewStep == work' = work + 1 /\ pc' = pc /\ resp' # <<>>

\* C19: a direct edit that breaks a validation rule (content over the
\* limit, more than 2 non-blank human lines, no field at all) or names a
\* draft that is not stored is answered with an error status (400, 404,
\* 422, or 500 when the stored document does not parse) and written
\* nowhere; and whenever a review request is answered with such a status
\* the drafts collection is as it was
C19_RejectedEditWritesNothing ==
    /\ [](\A id \in ReviewTargets : \A update \in UpdateInputs :
            Violates(id, update) =>
                /\ api_update_draft(drafts, id, update, now).resp \in {400, 404, 422, 500}
                /\ api_update_draft(drafts, id, update, now).coll = drafts)
    /\ [][(ReviewStep /\ resp' \in {<<400>>, <<404>>, <<422>>, <<500>>})
            => drafts' = drafts]_vars

\* a stored draft has just been edited with three signature lines: the
\* request was refused and the draft is as the run saved it
C19_Witness ==
    /\ resp = <<422>>
    /\ \E id \in DOMAIN drafts : drafts[id].human_lines = <<>> /\ drafts[id].content = "c1"

\* the URL with white space put around it
Padded(url) == {url, <<" ">> \o url, url \o <<" ">>, <<" ">> \o url \o <<" ", " ">>}

\* C21: the identity of an item depends on its trimmed URL only: for every
\* URL that SignalItem accepts, with any title and source, item_id equals
\* url_to_id of the URL, equals both for the URL with white space around
\* it, and is 16 hex digits; the key the orchestrator looks up is the key
\* the item is stored under
C21_IdentityFromTrimmedUrl ==
    (ToolDone("SignalItem") /\ ~call.ret.raised) =>
        /\ call.ret.item_id = url_to_id(call.arg.url)
        /\ call.ret.item_id = call.ret.key
        /\ call.ret.item_id = Sha256Hex16(Strip(call.arg.url))
        /\ \A u \in Padded(call.arg.url) :
             /\ url_to_id(u) = call.ret.item_id
             /\ signal_item_id([call.arg EXCEPT !.url = u]).item_id = call.ret.item_id
        /\ Len(call.ret.item_id) = 16
        /\ \A i \in 1..16 : call.ret.item_id[i] \in HexDigits

\* an item was built from a URL with white space on both sides
C21_Witness ==
    /\ ToolDone("SignalItem")
    /\ call.arg.url = <<" ", "a", " ">>
    /\ call.arg.title = "t2"
    /\ ~call.ret.raised
    /\ call.ret.item_id = url_to_id(<<"a">>)

\* the argument of a scheduler tool, once decoded, is a list of objects
ListOfObjects ==
    LET loaded == LoadsIfStr(call.arg)
    IN  /\ loaded.raised = "none"
        /\ loaded.v.t = "list"
        /\ \A i \in 1..Len(loaded.v.v) : loaded.v.v[i].t = "dict"

\* C22: compile_weekly_schedule and format_schedule_for_display never
\* raise: an argument that is not JSON, or is JSON but not a list of
\* objects, gives status error; an empty list gives status success with an
\* empty schedule, respectively the "No posts" text
C22_SchedulerToolsTotal ==
    (ToolDone("compile_weekly_schedule:any") \/ ToolDone("format_schedule_for_display")) =>
        /\ call.ret.raised = "none"
        /\ ~ListOfObjects => call.ret.result.status = "error"
        /\ LoadsIfStr(call.arg) = Returned(PyList(<<>>)) =>
             /\ call.ret.result.status = "success"
             /\ call.fn = "compile_weekly_schedule:any" => call.ret.result.schedule = <<>>
             /\ call.fn = "format_schedule_for_display" =>
                  call.ret.result.formatted = <<"No posts scheduled for this week.">>

\* C23: the sanitizer is idempotent: sanitizing a text that it has
\* sanitized changes nothing
C23_SanitizerIdempotent ==
    ToolDone("sanitize_for_prompt") => sanitize_for_prompt(call.ret) = call.ret

\* the step of run r that handles the quality result at index pos[r]
QualityResultStep(r) == pc[r] = "quality" /\ pos'[r] = pos[r] + 1

\* the drafts of all_draft_ids in the order they were persisted
PersistOrder(r) ==
    SortSeq(pending[r], LAMBDA a, b : drafts[a].created_at < drafts[b].created_at)

\* the quality result qr is applied to the draft id, and to no other
AppliedTo(qr, id) == drafts' = update_draft(drafts, id, QualityUpdates(qr), now)

\* C24: a quality result whose draft_id names a pending draft is applied to
\* that draft; otherwise the result at index N is applied to the Nth pending
\* draft in the order the drafts were persisted
C24_ReconciledInPersistOrder ==
    [][\A r \in Runs :
         QualityResultStep(r) =>
           LET qr == entry'[r]
               id == Get(qr, "draft_id", <<>>)
           IN  IF id \in Range(pending[r]) THEN AppliedTo(qr, id)
               ELSE IF pos[r] < Len(pending[r])
               THEN AppliedTo(qr, PersistOrder(r)[pos[r] + 1])
               ELSE drafts' = drafts]_vars

\* the drafts that the run on the fixed payloads persists
RunDrafts ==
    { DraftId(PairOf(d)[1], PairOf(d)[2]) :
        d \in {e \in Range(fetched.generated_drafts) : DraftHasContent(e) /\ DraftValid(e)} }

\* C25: every quality result that a run applies updates a draft that the
\* same run persisted, never a pending draft left over from an earlier run
C25_OnlyOwnDraftsUpdated ==
    [][\A r \in Runs :
         QualityResultStep(r) =>
           \A id \in DOMAIN drafts : drafts'[id] # drafts[id] => id \in RunDrafts]_vars

\* the quality result qr at index idx resolves to a draft of the list ids
Resolves(qr, idx, ids) == Get(qr, "draft_id", <<>>) \in Range(ids) \/ idx < Len(ids)

\* C26: a quality result that matches no pending draft by identity and whose
\* index is beyond the end of the pending list changes no draft, adds no
\* error and is not counted; drafts_passed_quality counts exactly the passing
\* results that were resolved to a draft
C26_UnresolvedResultIgnored ==
    [][\A r \in Runs :
         QualityResultStep(r) =>
           LET qr == entry'[r]
               counts == Get(qr, "passed", FALSE) /\ Resolves(qr, pos[r], pending[r])
           IN  /\ ~Resolves(qr, pos[r], pending[r]) =>
                    drafts' = drafts /\ result'[r] = result[r]
               /\ result'[r].drafts_passed_quality =
                    result[r].drafts_passed_quality + (IF counts THEN 1 ELSE 0)]_vars

\* a passing result was handled that resolved to no draft: nothing is counted
C26_Witness ==
    \E r \in Runs :
      /\ pc[r] = "quality" /\ pos[r] = 1 /\ pending[r] = <<>>
      /\ Get(entry[r], "passed", FALSE)
      /\ drafts = EmptyDoc
      /\ result[r].drafts_passed_quality = 0 /\ result[r].errors = <<>>

\* the draft that the quality result qr at index idx is applied to
TargetOf(qr, idx, ids) == ResolveDraftId(qr, idx, ids)[1]

\* the notes of a quality result
NotesOf(qr) ==
    IF Get(qr, "issues", <<>>) = <<>> THEN "Passed" ELSE JoinIssues(qr.issues)

\* C27: a quality result applied to a draft sets its quality_score and
\* quality_notes to those of the result; a failing result sets its status to
\* rejected, a passing result leaves the status as it was; no other draft
\* changes
C27_QualityResultApplied ==
    [][\A r \in Runs :
         (QualityResultStep(r) /\ Resolves(entry'[r], pos[r], pending[r])) =>
           LET qr == entry'[r]
               id == TargetOf(qr, pos[r], pending[r])
           IN  /\ drafts'[id].quality_score = Get(qr, "score", 0)
               /\ drafts'[id].quality_notes = NotesOf(qr)
               /\ drafts'[id].status =
                    IF Get(qr, "passed", FALSE) THEN drafts[id].status ELSE "rejected"
               /\ \A other \in DOMAIN drafts \ {id} : drafts'[other] = drafts[other]
               /\ DOMAIN drafts' = DOMAIN drafts]_vars

\* a passing result was applied to a draft that a failing result of the same
\* run had rejected
C27_Witness ==
    /\ pc[1] = "quality" /\ pos[1] = 2
    /\ Get(entry[1], "passed", FALSE)
    /\ Resolves(entry[1], 1, pending[1])
    /\ LET d == drafts[TargetOf(entry[1], 1, pending[1])]
       IN  d.status = "rejected" /\ d.quality_notes = "Passed"

\* C27 as stated: after persistence every draft a failing result was applied
\* to is rejected, every draft a passing result was applied to is pending,
\* and its score and notes are those of that result
C27_AfterPersistence ==
    (pc[1] = "quality" /\ pos[1] = Len(fetched.quality_results)) =>
      \A idx \in 0..(Len(fetched.quality_results) - 1) :
        LET qr == fetched.quality_results[idx + 1]
        IN  Resolves(qr, idx, pending[1]) =>
              LET d == drafts[TargetOf(qr, idx, pending[1])]
              IN  /\ d.status = IF Get(qr, "passed", FALSE) THEN "pending" ELSE "rejected"
                  /\ d.quality_score = Get(qr, "score", 0)
                  /\ d.quality_notes = NotesOf(qr)

\* C28: a run never reports more drafts passing quality than it generated
C28_PassedWithinGenerated ==
    \A r \in Runs : result[r].drafts_passed_quality <= result[r].drafts_generated

\* C29: draft identity is a one-to-one function of (item_id, variant): it is
\* the item_id with "/" replaced by "_", then "_v" and the variant; equal
\* pairs give equal identities and different pairs different identities
C29_DraftIdentityOneToOne ==
    ToolDone("DraftPost") =>
      LET a == call.arg.a
          b == call.arg.b
      IN  /\ call.ret[1] = ReplaceSlash(a.item_id) \o <<"_", "v", IntStr(a.variant)>>
          /\ PairOf(a) = PairOf(b) => call.ret[1] = call.ret[2]
          /\ PairOf(a) # PairOf(b) => call.ret[1] # call.ret[2]

\* text around a document that holds no bracket and no brace
PlainText == {g \in Garbage : \A i \in 1..Len(g) : g[i] \in {"t", " "}}

\* the argument is the JSON object obj with plain text before and after it
HoldsObject(obj) ==
    /\ obj \in Documents /\ obj.t = "dict"
    /\ \E pre \in PlainText, post \in PlainText : call.arg.v = pre \o Dump(obj) \o post

\* C30: a string holding a single JSON object, possibly surrounded by other
\* text, decodes to the one-element list of that object, also when the
\* object has array-valued fields
C30_SingleObjectDecoded ==
    (ToolDone("_parse_json_from_state") /\ call.arg.t = "str") =>
        \A obj \in Documents :
          HoldsObject(obj) => ReturnsList /\ call.ret.v = PyList(<<obj>>)

\* the passes of the finished call of the retry wrapper, and its final locals
Passes == call.ret.log
Final == call.ret.w

\* the response of a pass has status 429
Is429(pass) == pass.resp.o \in {"rate_limited", "bad_retry_after"}

\* C31: on a 429 the wrapper sleeps for the time the Retry-After header
\* gives when it is present, else for the backoff of the attempt, and then
\* makes another request; the 429 does not end the call with an exception
C31_RateLimitedRetries ==
    ToolDone("_request_with_retry") =>
      \A i \in 1..Len(Passes) :
        Is429(Passes[i]) =>
          /\ Passes[i].slept # <<>>
          /\ Passes[i].resp.retry_after # <<>> => Passes[i].slept = Passes[i].resp.retry_after
          /\ (Passes[i].resp.o = "rate_limited" /\ Passes[i].resp.retry_after = <<>>) =>
                Passes[i].slept = <<RETRY_BACKOFF_BASE ^ i>>
          /\ i < Len(Passes)

\* C32: a 4xx other than 429 is never retried: the call ends with that
\* request, without a sleep, by raising the status error to the fetcher
C32_ClientErrorNotRetried ==
    ToolDone("_request_with_retry") =>
      \A i \in 1..Len(Passes) :
        Passes[i].resp.o = "client_error" =>
          /\ i = Len(Passes)
          /\ Final.reqs = i
          /\ Passes[i].slept = <<>>
          /\ Final.ret = "raised" /\ Final.exc = "HTTPStatusError"

\* a 4xx came after a retried failure and ended the call
C32_Witness ==
    /\ ToolDone("_request_with_retry")
    /\ Len(Passes) = 2
    /\ Passes[1].resp.o = "server_error" /\ Passes[2].resp.o = "client_error"
    /\ Final.ret = "raised"

\* C33: the wrapper returns a response only when that response is a
\* success; when the attempts are used up without one it raises: it never
\* returns an unsuccessful response and never ends without a value or an error
C33_ReturnsOnlySuccess ==
    ToolDone("_request_with_retry") =>
      /\ Final.ret \in {"returned", "raised"}
      /\ Final.ret = "returned" <=> Passes[Len(Passes)].resp.o = "ok"
      /\ Final.ret = "raised" => Final.exc # "none"
      /\ (Len(Passes) = MAX_RETRIES /\ Passes[MAX_RETRIES].resp.o # "ok") =>
            Final.ret = "raised"

\* all three attempts were used up, the last on a 5xx, and the call raised
C33_Witness ==
    /\ ToolDone("_request_with_retry")
    /\ Final.reqs = MAX_RETRIES
    /\ \A i \in 1..MAX_RETRIES : Passes[i].resp.o \in {"rate_limited", "server_error"}
    /\ Passes[MAX_RETRIES].resp.o = "server_error"
    /\ Final.ret = "raised"

\* C34: after its k-th failed attempt the wrapper waits base^k seconds only
\* when a further attempt follows; after the last failed attempt it raises
\* without sleeping
C34_NoSleepBeforeRaise ==
    ToolDone("_request_with_retry") =>
      \A k \in 1..Len(Passes) :
        Passes[k].resp.o \in {"timeout", "connect_error", "server_error"} =>
          Passes[k].slept = IF k < MAX_RETRIES THEN <<RETRY_BACKOFF_BASE ^ k>> ELSE <<>>

\* the value is a mapping, or a string that encodes one at some depth
RECURSIVE EncodesMapping(_)
EncodesMapping(v) ==
    \/ v.t = "dict"
    \/ /\ v.t = "str"
       /\ json_loads(v.v).raised = "none"
       /\ EncodesMapping(json_loads(v.v).v)

\* the items handed to score_items, when its argument is a list or decodes
\* to one
InputItems ==
    IF LoadsIfStr(call.arg).raised = "none" /\ LoadsIfStr(call.arg).v.t = "list"
    THEN LoadsIfStr(call.arg).v.v
    ELSE <<>>

\* C35: score_items keeps every item that is a mapping or a string that
\* encodes a mapping at any nesting depth, discards every other item, and
\* returns a count equal to the number of kept items
C35_ScoreItemsKeepsMappings ==
    (ToolDone("score_items") /\ InputItems # <<>>) =>
      /\ call.ret.raised = "none" /\ call.ret.status = "success"
      /\ call.ret.count = Len(call.ret.items)
      /\ call.ret.count = Cardinality({i \in 1..Len(InputItems) : EncodesMapping(InputItems[i])})

\* the weekday (Monday is 0) of a civil date <<year, month, day>>, by the
\* table method
MonthKey == <<0, 3, 2, 5, 0, 3, 5, 1, 4, 6, 2, 4>>
WeekdayOfDate(ymd) ==
    LET y == IF ymd[2] < 3 THEN ymd[1] - 1 ELSE ymd[1]
        sunday0 == (y + y \div 4 - y \div 100 + y \div 400 + MonthKey[ymd[2]] + ymd[3]) % 7
    IN  (sunday0 + 6) % 7

\* the ordinal of the day after the ordinal d has the civil date after its
\* civil date: the first day whose civil date is ymd, searched from today on
DaysAhead(ymd) ==
    {n \in 0..14 : strftime(call.arg.today + n) = ymd}

\* C36: the week start is the first Monday strictly after today, 1 to 7
\* days ahead (7 when today is a Monday); every entry's scheduled_date is
\* the week start plus its weekday index, so the weekday of the date is the
\* entry's scheduled_day
C36_WeekStartsNextMonday ==
    (ToolDone("compile_weekly_schedule:on") /\ call.arg.approved # <<>>) =>
      LET start == call.ret.week_starting
          schedule == call.ret.schedule
      IN  /\ WeekdayOfDate(start) = 0
          /\ \E n \in 1..7 :
                /\ DaysAhead(start) = {n}
                /\ \A m \in 1..(n - 1) : WeekdayOfDate(strftime(call.arg.today + m)) # 0
                /\ WeekdayOfDate(strftime(call.arg.today)) = 0 <=> n = 7
                /\ \A k \in 1..Len(schedule) :
                     \E i \in 0..6 :
                       /\ WEEKDAYS[i + 1] = schedule[k].scheduled_day
                       /\ DaysAhead(schedule[k].scheduled_date) = {n + i}
          /\ \A k \in 1..Len(schedule) :
               WEEKDAYS[WeekdayOfDate(schedule[k].scheduled_date) + 1] = schedule[k].scheduled_day

\* called on a Monday, and on the last days of a year, with a full week
C36_Witness ==
    /\ ToolDone("compile_weekly_schedule:on")
    /\ weekday(call.arg.today) = 0
    /\ strftime(call.arg.today) = <<2023, 12, 25>>
    /\ call.ret.week_starting = <<2024, 1, 1>>
    /\ Len(call.ret.schedule) = 14
    /\ call.ret.schedule[14].scheduled_date = <<2024, 1, 7>>
    /\ call.ret.schedule[14].scheduled_day = "Sunday"

\* ------------------------------------------------------------------------
\* The dashboard's rate limiter
\* ------------------------------------------------------------------------

RATE_LIMIT_WINDOW == 60
RATE_LIMIT_MAX == 30

\* the entries of a sequence that satisfy a test, in order
RECURSIVE Newer(_, _)
Newer(stamps, window_start) ==
    IF stamps = <<>> THEN <<>>
    ELSE IF Head(stamps) > window_start
         THEN <<Head(stamps)>> \o Newer(Tail(stamps), window_start)
         ELSE Newer(Tail(stamps), window_start)

\* a limiter that would record the request before testing the limit (a
\* faulty variant, to compare)
check_rate_limit_recording_all(stamps, t) ==
    LET kept == Append(Newer(stamps, t - RATE_LIMIT_WINDOW), t)
    IN  [stamps |-> kept, allowed |-> Len(kept) <= RATE_LIMIT_MAX]

\* _check_rate_limit on the client's timestamps at time t: the timestamps of
\* the window are kept; at the limit the request is refused, else its time
\* is recorded
check_rate_limit(stamps, t) ==
    LET kept == Newer(stamps, t - RATE_LIMIT_WINDOW)
    IN  IF Len(kept) >= RATE_LIMIT_MAX
        THEN [stamps |-> kept, allowed |-> FALSE]
        ELSE [stamps |-> Append(kept, t), allowed |-> TRUE]

\* what the limiter's steps leave alone
LimitFrame ==
    UNCHANGED <<items, drafts, pc, sess, entry, pos, pending, result, outcome, resp,
                fetched, collected, call, net, tweets>>

\* rate_limit_middleware up to its await: a request of a client arrives (the
\* requests are numbered as they arrive), and
\* _check_rate_limit runs on the event loop without giving way; a refused
\* request is answered at once, an allowed one goes to call_next
Arrive(q) ==
    \E c \in Clients :
      LET out == check_rate_limit(limiter.rate_limit_store[c], now)
      IN  /\ limiter.http[q].at = "new"
          /\ q > 1 => limiter.http[q - 1].at # "new"
          /\ limiter' =
               [rate_limit_store |-> [limiter.rate_limit_store EXCEPT ![c] = out.stamps],
                passed |-> IF out.allowed
                           THEN [limiter.passed EXCEPT ![c] = Append(@, now)]
                           ELSE limiter.passed,
                http |-> [limiter.http EXCEPT
                            ![q] = [at |-> IF out.allowed THEN "call_next" ELSE "refused",
                                    client |-> c, allowed |-> out.allowed]]]
          /\ UNCHANGED <<now, work>>
          /\ LimitFrame

\* call_next returns and the middleware returns the response
Respond(q) ==
    /\ limiter.http[q].at = "call_next"
    /\ limiter' = [limiter EXCEPT !.http[q].at = "answered"]
    /\ UNCHANGED <<now, work>>
    /\ LimitFrame

\* time.time() moves on, by a second or by a second less than the window
Elapse ==
    /\ work < MaxWork
    /\ work' = work + 1
    /\ \E d \in {1, RATE_LIMIT_WINDOW - 1} : now' = now + d
    /\ UNCHANGED limiter
    /\ LimitFrame

\* timestamps of n requests at time t
Burst(n, t) == [i \in 1..n |-> t]

\* the dashboard after a client's earlier requests, all answered: none, or
\* one less than the limit in the second before the clock's first reading
InitLimit ==
    /\ items = EmptyDoc
    /\ drafts = EmptyDoc
    /\ now = 1
    /\ resp = <<>>
    /\ work = 0
    /\ collected = 0
    /\ tweets = <<>>
    /\ InitRuns /\ InitTools /\ fetched = NoFetch
    /\ \E n \in {0, RATE_LIMIT_MAX - 1} :
         limiter = [rate_limit_store |-> [c \in Clients |->
                                            IF c = "10.0.0.1" THEN Burst(n, 0) ELSE <<>>],
                    passed |-> [c \in Clients |->
                                  IF c = "10.0.0.1" THEN Burst(n, 0) ELSE <<>>],
                    http |-> [q \in Requests |-> NewRequest]]

NextLimit ==
    \/ \E q \in Requests : Arrive(q)
    \/ \E q \in Requests : Respond(q)
    \/ Elapse

SpecLimit == InitLimit /\ [][NextLimit]_vars

\* the status of a stored draft
StatusOf(coll, draft_id) == Get(coll[draft_id], "status", "")

\* the step called XPoster.post_tweet
Posted == Len(tweets') = Len(tweets) + 1

\* the call of XPoster.post_tweet the step made
ThePost == tweets'[Len(tweets')]

\* C37: through the dashboard's approve endpoint and through the bot's
\* approve button alike, when posting to X is configured a draft becomes
\* approved only if the post succeeded, and a failed post leaves the draft's
\* status as it was
C37_ApprovedOnlyIfPosted ==
    [][Posted =>
         /\ \A id \in DOMAIN drafts :
              StatusOf(drafts', id) = "approved" /\ StatusOf(drafts, id) # "approved"
                 => ThePost.success
         /\ ~ThePost.success =>
              StatusOf(drafts', ThePost.draft_id) = StatusOf(drafts, ThePost.draft_id)]_vars

\* C38: over any sequence of approve operations, from one front-end or the
\* other, a draft is sent to the posting client at most once
C38_PostedAtMostOnce ==
    \A i, j \in DOMAIN tweets : tweets[i].draft_id = tweets[j].draft_id => i = j

\* the requests of client c passed on in the window of RATE_LIMIT_WINDOW
\* seconds that starts at time w
PassedIn(c, w) ==
    {i \in DOMAIN limiter.passed[c] :
        limiter.passed[c][i] \in w..(w + RATE_LIMIT_WINDOW - 1)}

\* the first time from t on at which the limiter allows a client whose
\* timestamps are stamps
AllowedAgain(stamps, t) ==
    LET free(u) == Len(Newer(stamps, u - RATE_LIMIT_WINDOW)) < RATE_LIMIT_MAX
    IN  CHOOSE u \in t..(t + RATE_LIMIT_WINDOW) :
          free(u) /\ \A v \in t..(u - 1) : ~free(v)

\* request q is refused in the step
Refused(q) == limiter.http[q].at = "new" /\ limiter'.http[q].at = "refused"

\* C39: for every client, whatever the order in which the requests in flight
\* arrive and are answered, no window of 60 seconds holds more than 30
\* requests that were allowed (a window that holds the most requests can be
\* taken to start at one of them), and a refused request is not recorded: the
\* client's timestamps gain nothing and the client is allowed again at the
\* time it would have been allowed without the request
C39_RateLimited ==
    /\ [](\A c \in Clients :
            \A w \in {limiter.passed[c][i] : i \in DOMAIN limiter.passed[c]} :
              Cardinality(PassedIn(c, w)) <= RATE_LIMIT_MAX)
    /\ [][\A q \in Requests : Refused(q) =>
            LET c == limiter'.http[q].client
                before == limiter.rate_limit_store[c]
                after == limiter'.rate_limit_store[c]
            IN  /\ after = Newer(before, now - RATE_LIMIT_WINDOW)
                /\ AllowedAgain(after, now) = AllowedAgain(before, now)
                /\ limiter'.passed = limiter.passed]_vars

\* a client at the limit is refused while an earlier request of it is still
\* in call_next, and after the window has passed it is allowed again
C39_Witness ==
    \E q1, q2, q3 \in Requests :
      /\ limiter.http[q1].at = "call_next"
      /\ limiter.http[q2].at = "refused"
      /\ limiter.http[q3].at = "call_next" /\ q3 > q2
      /\ limiter.http[q1].client = limiter.http[q2].client
      /\ limiter.http[q3].client = limiter.http[q2].client
      /\ Len(limiter.passed[limiter.http[q2].client]) = RATE_LIMIT_MAX + 1

=============================================================================
